---- MODULE Spec2Model ----
(***************************************************************************)
(* Model of the evaluation-and-search engine of the aeroacoustic UAV       *)
(* propeller repository: the three bio-inspired feature models, the        *)
(* design factory that composes them, the design evaluator and the         *)
(* random-search optimizer.                                                *)
(*                                                                         *)
(* Python dictionaries and lists are objects on a heap (a sequence of      *)
(* objects addressed by position), so that dict.copy() is a shallow copy   *)
(* and two records can share a nested object exactly as in the source.     *)
(*                                                                         *)
(* Floating-point quantities are fixed-point integers:                     *)
(*   lengths            micrometres            (0.025 m   = 25000)         *)
(*   ratios of a length thousandths            (0.05      = 50)            *)
(*   angles             hundredths of a degree (10.0 deg  = 1000)          *)
(*   sound levels, dB   1e-4 dB                (80.0 dB   = 800000)        *)
(*   factors in [0,1]   1e-4                   (0.3       = 3000)          *)
(*   drag coefficient   1e-5                   (0.02      = 2000)          *)
(*   lift coefficient   1e-4                   (1.2       = 12000)         *)
(*   thrust             millinewtons, power milliwatts                     *)
(*   NTR                1e-4 dB per newton                                 *)
(* float('inf') is the integer Inf, larger than every finite value.        *)
(***************************************************************************)
EXTENDS Integers, Sequences, FiniteSets, TLC

\* ------------------------------------------------------------------ bounds
MaxFeatures == 3        \* longest feature list passed to an operation
MaxIterations == 3      \* largest num_iterations passed to optimize
MaxHistory == 3         \* history entries the model lets accumulate
MaxSeed == 1            \* generator states a call of the sampler starts from
MaxDesigns == 3         \* longest list of designs passed to compare_designs

\* --------------------------------------------------------------- constants
Inf == 2000000000
NegInf == 0 - Inf
NaN == Inf + 1          \* float('nan'): every ordered comparison with it is false
None == 0 - 1           \* Python None where a count or a reference is expected

OWL == "owl_serrations"
HUMP == "humpback_tubercles"
DRAGON == "dragonfly_corrugations"
UNKNOWN == "winglets"
FeatureNames == {OWL, HUMP, DRAGON}

\* --------------------------------------------------------- integer helpers
Abs(x) == IF x < 0 THEN 0 - x ELSE x
Min(a, b) == IF a < b THEN a ELSE b
Max(a, b) == IF a > b THEN a ELSE b
\* division of floats, truncated toward zero; the divisor is never 0 here
Div(a, b) ==
    IF b > 0
    THEN (IF a >= 0 THEN a \div b ELSE 0 - ((0 - a) \div b))
    ELSE (IF a >= 0 THEN 0 - (a \div (0 - b)) ELSE (0 - a) \div (0 - b))

\* Python int(x / y) for non-negative operands
IntDiv(x, y) == x \div y

RECURSIVE SqrtIter(_, _, _)
SqrtIter(n, x, fuel) ==
    LET y == (x + n \div x) \div 2
    IN  IF fuel = 0 \/ y >= x THEN x ELSE SqrtIter(n, y, fuel - 1)
\* np.sqrt on a non-negative fixed-point value: floor of the square root
ISqrt(n) == IF n <= 0 THEN 0 ELSE SqrtIter(n, n, 40)

\* a local variable: the value e is computed once and Body reads it by name
Bind(e, Body(_)) == CHOOSE r \in {Body(v) : v \in {e}} : TRUE

\* ------------------------------------------------------------ dictionaries
EmptyDict == [k \in {} |-> 0]
HasKey(d, k) == k \in DOMAIN d
Get(d, k, default) == IF k \in DOMAIN d THEN d[k] ELSE default
Put(d, k, v) == [x \in (DOMAIN d) \cup {k} |-> IF x = k THEN v ELSE d[x]]
InList(x, l) == \E i \in 1..Len(l) : l[i] = x

\* keys whose value is a reference to another heap object
RefKeys == {"material_properties", "trailing_edge_serrations",
            "leading_edge_tubercles", "surface_corrugations",
            "structural_improvements", "bio_inspired_features"}

\* the value of a record as Python's == sees it: nested objects by value
DeepValue(h, a) ==
    [k \in DOMAIN h[a] |-> IF k \in RefKeys THEN h[h[a][k]] ELSE h[a][k]]

\* the heap objects a record reaches, the record itself included
Reach(h, a) == {a} \cup {h[a][k] : k \in (DOMAIN h[a]) \cap RefKeys}

\* arctan of a non-negative quotient num/den, in hundredths of a degree
\* (np.degrees(np.arctan(..)), evaluated by the rational approximation
\* x / (1 + 0.28 x^2) on [0,1] and its reflection above 1)
AtanUnit(xm) ==
    LET denm == 1000 + (28 * xm * xm) \div 100000
        rad5 == (xm * 100000) \div denm
    IN  (rad5 * 573) \div 10000
AtanCdeg(num, den) ==
    IF num <= den
    THEN AtanUnit((num * 1000) \div den)
    ELSE 9000 - AtanUnit((den * 1000) \div num)

\* ------------------------------------------------- feature geometry (4.4a)
\* each returns [d |-> the parameter dictionary, err |-> "none" or the
\* exception the Python code raises]

calculate_serration_geometry(chord_length, serration_depth_ratio, serration_wavelength_ratio, num_serrations) ==
    LET depth == (chord_length * serration_depth_ratio) \div 1000
        wavelength == (chord_length * serration_wavelength_ratio) \div 1000
    IN  IF wavelength = 0
        THEN [d |-> EmptyDict, err |-> "ZeroDivisionError"]
        ELSE [d |-> [depth_m |-> depth,
                     wavelength_m |-> wavelength,
                     num_serrations |->
                         IF num_serrations = None
                         THEN IntDiv(chord_length \div 2, wavelength)
                         ELSE num_serrations,
                     angle_deg |-> AtanCdeg(2 * depth, wavelength),
                     depth_ratio |-> serration_depth_ratio,
                     wavelength_ratio |-> serration_wavelength_ratio],
              err |-> "none"]

calculate_tubercle_geometry(blade_span, amplitude_ratio, wavelength_ratio, num_tubercles) ==
    LET wavelength0 == (blade_span * wavelength_ratio) \div 1000
    IN  IF num_tubercles = None /\ wavelength0 = 0
        THEN [d |-> EmptyDict, err |-> "ZeroDivisionError"]
        ELSE LET n == IF num_tubercles = None
                      THEN Max(3, IntDiv(blade_span, wavelength0))
                      ELSE num_tubercles
             IN  IF n = 0 \/ blade_span = 0
                 THEN [d |-> EmptyDict, err |-> "ZeroDivisionError"]
                 ELSE [d |-> [num_tubercles |-> n,
                              wavelength_m |-> blade_span \div n,
                              amplitude_ratio |-> amplitude_ratio,
                              wavelength_ratio |->
                                  ((blade_span \div n) * 1000) \div blade_span,
                              span_m |-> blade_span],
                       err |-> "none"]

calculate_corrugation_geometry(chord_length, corrugation_depth_ratio, corrugation_wavelength_ratio, num_corrugations) ==
    LET depth == (chord_length * corrugation_depth_ratio) \div 1000
        wavelength == (chord_length * corrugation_wavelength_ratio) \div 1000
    IN  IF wavelength = 0
        THEN [d |-> EmptyDict, err |-> "ZeroDivisionError"]
        ELSE [d |-> [depth_m |-> depth,
                     wavelength_m |-> wavelength,
                     num_corrugations |->
                         IF num_corrugations = None
                         THEN Max(IntDiv(chord_length, wavelength), 3)
                         ELSE num_corrugations,
                     profile_angle_deg |-> AtanCdeg(2 * depth, wavelength),
                     depth_ratio |-> corrugation_depth_ratio,
                     wavelength_ratio |-> corrugation_wavelength_ratio],
              err |-> "none"]

\* stiffness figures in hundredths of a percent, moment_area_factor in 1e-4
estimate_structural_benefits(corrugation_params, blade_material) ==
    IF ~HasKey(corrugation_params, "depth_m")
       \/ ~HasKey(corrugation_params, "wavelength_m")
    THEN [d |-> EmptyDict, err |-> "KeyError"]
    ELSE IF corrugation_params["wavelength_m"] = 0
    THEN [d |-> EmptyDict, err |-> "ZeroDivisionError"]
    ELSE
    LET depth == corrugation_params["depth_m"]
        wavelength == corrugation_params["wavelength_m"]
        depth_wavelength_ratio == (depth * 10000) \div wavelength
        moment_area_factor ==
            10000 + (depth_wavelength_ratio * depth_wavelength_ratio) \div 10000
        stiffness == moment_area_factor - 10000
    IN  [d |-> [stiffness_increase_percentage |-> stiffness,
                torsional_stiffness_increase_percentage |-> stiffness \div 2,
                natural_frequency_increase_percentage |->
                    ISqrt(moment_area_factor * 10000) - 10000,
                moment_area_factor |-> moment_area_factor,
                flutter_resistance_improvement |->
                    IF stiffness > 2000 THEN "high" ELSE "moderate"],
         err |-> "none"]

\* ------------------------------------------------------------- heap (3, 5)
\* a heap is a sequence of objects; address a names h[a]; allocation appends
Alloc(h, obj) == Append(h, obj)
NewAddr(h) == Len(h) + 1
Store(h, a, obj) == [h EXCEPT ![a] = obj]

\* result of an operation that returns a record: the heap after the call,
\* the address of the returned record, and the exception raised ("none")
Raised(h, e) == [h |-> h, ret |-> None, err |-> e]
Returned(h, a) == [h |-> h, ret |-> a, err |-> "none"]

\* ------------------------------------------------ geometry mutation (4.4c)
\* blade_geometry and the config are addresses; config is None when absent

owl_apply_nocopy(h, blade_geometry, serration_config) ==
    LET chord_length == Get(h[blade_geometry], "chord_length", 50000)
        derived == calculate_serration_geometry(chord_length, 50, 20, None)
    IN  IF serration_config = None /\ derived.err # "none"
        THEN Raised(h, derived.err)
        ELSE
        LET h1 == IF serration_config = None THEN Alloc(h, derived.d) ELSE h
            serration_params == IF serration_config = None
                                THEN NewAddr(h) ELSE serration_config
            g1 == Put(Put(h1[blade_geometry],
                          "trailing_edge_serrations", serration_params),
                      "bio_inspired_feature", "owl_wing_serrations")
            base_drag_coeff == Get(h[blade_geometry], "drag_coefficient", 2000)
        IN  IF ~HasKey(h1[serration_params], "depth_ratio")
            THEN Raised(h1, "KeyError")
            ELSE LET serration_drag_penalty ==
                         200 + 3 * h1[serration_params]["depth_ratio"]
                 IN  Returned(
                       Store(h1, blade_geometry,
                             Put(g1, "drag_coefficient",
                                 (base_drag_coeff
                                    * (10000 + serration_drag_penalty))
                                 \div 10000)),
                       blade_geometry)

owl_apply_to_blade_design(h, blade_geometry, serration_config) ==
    LET chord_length == Get(h[blade_geometry], "chord_length", 50000)
        derived == calculate_serration_geometry(chord_length, 50, 20, None)
    IN  IF serration_config = None /\ derived.err # "none"
        THEN Raised(h, derived.err)
        ELSE
        LET h1 == IF serration_config = None THEN Alloc(h, derived.d) ELSE h
            serration_params == IF serration_config = None
                                THEN NewAddr(h) ELSE serration_config
            \* modified_geometry = blade_geometry.copy()
            h2 == Alloc(h1, h1[blade_geometry])
            modified_geometry == NewAddr(h1)
            g1 == Put(Put(h2[modified_geometry],
                          "trailing_edge_serrations", serration_params),
                      "bio_inspired_feature", "owl_wing_serrations")
            base_drag_coeff == Get(h[blade_geometry], "drag_coefficient", 2000)
        IN  IF ~HasKey(h2[serration_params], "depth_ratio")
            THEN Raised(Store(h2, modified_geometry, g1), "KeyError")
            ELSE LET serration_drag_penalty ==
                         200 + 3 * h2[serration_params]["depth_ratio"]
                 IN  Returned(
                       Store(h2, modified_geometry,
                             Put(g1, "drag_coefficient",
                                 (base_drag_coeff
                                    * (10000 + serration_drag_penalty))
                                 \div 10000)),
                       modified_geometry)

humpback_apply_to_blade_design(h, blade_geometry, tubercle_config) ==
    LET blade_span == Get(h[blade_geometry], "radius", 127000)
        derived == calculate_tubercle_geometry(blade_span, 120, 250, None)
    IN  IF tubercle_config = None /\ derived.err # "none"
        THEN Raised(h, derived.err)
        ELSE
        LET h1 == IF tubercle_config = None THEN Alloc(h, derived.d) ELSE h
            tubercle_params == IF tubercle_config = None
                               THEN NewAddr(h) ELSE tubercle_config
            h2 == Alloc(h1, h1[blade_geometry])
            modified_geometry == NewAddr(h1)
            base_cl_max == Get(h[blade_geometry], "cl_max", 12000)
            base_drag_coeff == Get(h[blade_geometry], "drag_coefficient", 2000)
            base_stall_angle == Get(h[blade_geometry], "stall_angle_deg", 1200)
            g1 == Put(Put(h2[modified_geometry],
                          "leading_edge_tubercles", tubercle_params),
                      "bio_inspired_feature", "humpback_whale_tubercles")
            g2 == Put(g1, "cl_max", (base_cl_max * 1075) \div 1000)
            g3 == Put(g2, "drag_coefficient",
                      (base_drag_coeff * (10000 + 250)) \div 10000)
            g4 == Put(g3, "stall_angle_deg", base_stall_angle + 200)
        IN  Returned(Store(h2, modified_geometry, g4), modified_geometry)

dragonfly_apply_to_blade_design(h, blade_geometry, corrugation_config) ==
    LET chord_length == Get(h[blade_geometry], "chord_length", 50000)
        derived == calculate_corrugation_geometry(chord_length, 30, 50, None)
    IN  IF corrugation_config = None /\ derived.err # "none"
        THEN Raised(h, derived.err)
        ELSE
        LET h1 == IF corrugation_config = None THEN Alloc(h, derived.d) ELSE h
            corrugation_params == IF corrugation_config = None
                                  THEN NewAddr(h) ELSE corrugation_config
            h2 == Alloc(h1, h1[blade_geometry])
            modified_geometry == NewAddr(h1)
            g1 == Put(Put(h2[modified_geometry],
                          "surface_corrugations", corrugation_params),
                      "bio_inspired_feature", "dragonfly_corrugations")
            \* material_props = blade_geometry.get('material_properties', {})
            material_props ==
                IF HasKey(h[blade_geometry], "material_properties")
                THEN h[h[blade_geometry]["material_properties"]]
                ELSE EmptyDict
            structural_benefits ==
                estimate_structural_benefits(h2[corrugation_params],
                                             material_props)
        IN  IF structural_benefits.err # "none"
            THEN Raised(Store(h2, modified_geometry, g1),
                        structural_benefits.err)
            ELSE
            LET h3 == Alloc(h2, structural_benefits.d)
                g2 == Put(g1, "structural_improvements", NewAddr(h2))
                base_drag_coeff ==
                    Get(h[blade_geometry], "drag_coefficient", 2000)
                g3 == Put(g2, "drag_coefficient",
                          (base_drag_coeff * (10000 + 400)) \div 10000)
                base_cl_max == Get(h[blade_geometry], "cl_max", 12000)
                g4 == Put(g3, "cl_max", (base_cl_max * 1050) \div 1000)
            IN  Returned(Store(h3, modified_geometry, g4), modified_geometry)

apply_to_blade_design(h, feature, blade_geometry, config) ==
    CASE feature = OWL -> owl_apply_to_blade_design(h, blade_geometry, config)
      [] feature = HUMP ->
            humpback_apply_to_blade_design(h, blade_geometry, config)
      [] OTHER -> dragonfly_apply_to_blade_design(h, blade_geometry, config)

\* ------------------------------------------------- FeatureComposer (4.5)
\* custom_configs maps some feature names to config addresses; .get(name)
\* is None for the others (and for all when custom_configs is None)
NoConfigs == [f \in {} |-> None]
ConfigFor(custom_configs, feature) == Get(custom_configs, feature, None)

\* one "if name in features: apply; applied_features.append(name)" block
CreateStep(s, feature, features, custom_configs) ==
    IF s.err # "none" \/ ~InList(feature, features)
    THEN s
    ELSE Bind(apply_to_blade_design(s.h, feature, s.g,
                                    ConfigFor(custom_configs, feature)),
              LAMBDA r :
                  [h |-> r.h, g |-> r.ret, err |-> r.err,
                   applied |-> IF r.err = "none"
                               THEN Append(s.applied, feature)
                               ELSE s.applied])

\* a create_design that applies the features in the order of the input list
RECURSIVE CreateInListOrder(_, _, _, _)
CreateInListOrder(s, i, features, custom_configs) ==
    IF i > Len(features)
    THEN s
    ELSE CreateInListOrder(
           IF features[i] \in FeatureNames
           THEN CreateStep(s, features[i], features, custom_configs)
           ELSE s,
           i + 1, features, custom_configs)

CreateFinish(s) ==
    IF s.err # "none"
    THEN [h |-> s.h, ret |-> None, err |-> s.err, applied |-> s.applied]
    ELSE LET h1 == Alloc(s.h, s.applied)
         IN  [h |-> Store(h1, s.g,
                          Put(h1[s.g], "bio_inspired_features", NewAddr(s.h))),
              ret |-> s.g, err |-> "none", applied |-> s.applied]

create_design_listorder(h, base_geometry, features, custom_configs) ==
    LET s0 == [h |-> Alloc(h, h[base_geometry]), g |-> NewAddr(h),
               err |-> "none", applied |-> <<>>]
    IN  CreateFinish(CreateInListOrder(s0, 1, features, custom_configs))

\* returns [h, ret, err] and applied: the features in the order in which
\* their apply_to_blade_design was called
create_design(h, base_geometry, features, custom_configs) ==
    LET s0 == [h |-> Alloc(h, h[base_geometry]), g |-> NewAddr(h),
               err |-> "none", applied |-> <<>>]
        s1 == CreateStep(s0, OWL, features, custom_configs)
        s2 == CreateStep(s1, HUMP, features, custom_configs)
        s3 == CreateStep(s2, DRAGON, features, custom_configs)
    IN  CreateFinish(s3)

\* the variants built with create_design, in the order of the code; the
\* combined one is built only for num_variants >= 5
VariantPlan(num_variants) ==
    <<[name |-> "Owl Serrations", features |-> <<OWL>>],
      [name |-> "Humpback Tubercles", features |-> <<HUMP>>],
      [name |-> "Dragonfly Corrugations", features |-> <<DRAGON>>]>>
    \o (IF num_variants >= 5
        THEN <<[name |-> "Combined Bio-Inspired",
                features |-> <<OWL, HUMP, DRAGON>>]>>
        ELSE <<>>)

\* variants.append({name, geometry: create_design(..), features}) for the
\* entries of the plan from the i-th on; an exception ends the call
RECURSIVE VariantLoop(_, _, _, _)
VariantLoop(s, i, plan, base_geometry) ==
    IF i > Len(plan) \/ s.err # "none"
    THEN s
    ELSE Bind(create_design(s.h, base_geometry, plan[i].features, NoConfigs),
              LAMBDA r :
                  VariantLoop(
                      [h |-> r.h, err |-> r.err,
                       variants |->
                           IF r.err = "none"
                           THEN Append(s.variants,
                                       [name |-> plan[i].name,
                                        geometry |-> r.ret,
                                        features |-> plan[i].features])
                           ELSE s.variants],
                      i + 1, plan, base_geometry))

\* the whole list, whatever num_variants is
NoSlice(variants, num_variants) == variants

\* variants[:num_variants]; a negative bound counts from the end
Slice(variants, num_variants) ==
    IF num_variants >= 0
    THEN SubSeq(variants, 1, Min(num_variants, Len(variants)))
    ELSE SubSeq(variants, 1, Max(Len(variants) + num_variants, 0))

\* returns the heap after the call, the list of variants (each with the
\* address of its geometry) and the exception raised
generate_design_variants(h, base_geometry, num_variants) ==
    Bind(VariantLoop([h |-> Alloc(h, h[base_geometry]), err |-> "none",
                      variants |-> <<[name |-> "Baseline",
                                      geometry |-> NewAddr(h),
                                      features |-> <<>>]>>],
                     1, VariantPlan(num_variants), base_geometry),
         LAMBDA s :
             [h |-> s.h, err |-> s.err,
              variants |-> IF s.err = "none"
                           THEN Slice(s.variants, num_variants) ELSE <<>>])

\* recommendations.append(feature) when the feature is not yet in the list
AppendMissing(recommendations, feature, wanted) ==
    IF wanted /\ ~InList(feature, recommendations)
    THEN Append(recommendations, feature) ELSE recommendations

\* the rule for a high noise-reduction target, applied to the list the
\* first three rules gave
TargetRule(recommendations, noise_target, manufacturing) ==
    IF noise_target >= 1500 /\ Len(recommendations) < 2
    THEN AppendMissing(AppendMissing(recommendations, OWL, TRUE),
                       HUMP, manufacturing = "high")
    ELSE recommendations

\* angles in hundredths of a degree, the target in hundredths of a percent;
\* constraints is optional
recommend_features(operating_conditions, constraints) ==
    Bind(IF constraints.given THEN constraints.v ELSE EmptyDict,
         LAMBDA c :
             TargetRule(
                 (IF Get(c, "manufacturing_complexity", "medium")
                        \in {"medium", "high"}
                  THEN <<OWL>> ELSE <<>>)
                 \o (IF Get(operating_conditions, "angle_of_attack", 500) > 500
                        /\ Get(c, "manufacturing_complexity", "medium") = "high"
                     THEN <<HUMP>> ELSE <<>>)
                 \o (IF Get(operating_conditions, "reynolds_number", 200000)
                            < 300000
                        \/ Get(c, "require_stiffness", FALSE)
                     THEN <<DRAGON>> ELSE <<>>),
                 Get(operating_conditions, "noise_reduction_target", 1500),
                 Get(c, "manufacturing_complexity", "medium")))

\* ------------------------------------------------ reduction estimates (4.4b)
\* np.exp(-x) for x >= 0, x and the result in 1e-4, evaluated by
\* 1 / (1 + x + x^2/2 + x^3/6)
ExpNeg(x) ==
    LET x2 == (x * x) \div 20000
        x3 == (x2 * x) \div 30000
    IN  (10000 * 10000) \div (10000 + x + x2 + x3)

\* reductions are kept to 0.01 dB
RoundCentiDb(x) == Div(x, 100) * 100

\* reduction / baseline * 100, in hundredths of a percent
PercentOf(part, whole) == Div(part * 1000, whole) * 10

EstimateError(e) ==
    [noise_reduction_db |-> 0, reduced_noise_db |-> 0, err |-> e]

owl_estimate_noise_reduction(baseline_noise_db, serration_params, frequency_hz, flow_velocity) ==
    IF ~HasKey(serration_params, "depth_m")
       \/ ~HasKey(serration_params, "wavelength_m")
    THEN EstimateError("KeyError")
    ELSE IF frequency_hz = 0 \/ baseline_noise_db = 0
    THEN EstimateError("ZeroDivisionError")
    ELSE
    LET depth == serration_params["depth_m"]
        wavelength == serration_params["wavelength_m"]
        \* wavelength / ((343.0 / frequency_hz) / 4), in 1e-4
        wavelength_ratio == (wavelength * 4 * frequency_hz) \div 34300
        effectiveness ==
            IF wavelength_ratio < 1000 THEN 3000
            ELSE IF wavelength_ratio < 5000
                 THEN 3000 + (4000 * (wavelength_ratio - 1000)) \div 4000
            ELSE IF wavelength_ratio <= 20000
                 THEN 7000 + (3000 * (10000 - Abs(wavelength_ratio - 10000)))
                             \div 10000
            ELSE ExpNeg((wavelength_ratio - 20000) \div 2) \div 2
        base_reduction == 20000 + 5 * effectiveness
        depth_factor == Min(depth, 10000)
        noise_reduction_db ==
            RoundCentiDb((base_reduction * depth_factor * 2) \div 10000)
    IN  [noise_reduction_db |-> noise_reduction_db,
         reduced_noise_db |-> baseline_noise_db - noise_reduction_db,
         effectiveness_factor |-> effectiveness,
         reduction_percentage |->
             PercentOf(noise_reduction_db, baseline_noise_db),
         err |-> "none"]

humpback_estimate_noise_reduction(baseline_noise_db, tubercle_params, operating_conditions) ==
    IF ~HasKey(tubercle_params, "num_tubercles")
       \/ ~HasKey(tubercle_params, "amplitude_ratio")
    THEN EstimateError("KeyError")
    ELSE IF baseline_noise_db = 0
    THEN EstimateError("ZeroDivisionError")
    ELSE
    LET num_tubercles == tubercle_params["num_tubercles"]
        amplitude_ratio == tubercle_params["amplitude_ratio"]
        aoa == Get(operating_conditions, "angle_of_attack", 500)
        aoa_factor ==
            IF aoa < 500 THEN 4000
            ELSE IF aoa < 1000 THEN 4000 + (4000 * (aoa - 500)) \div 500
            ELSE 8000 + (2000 * Min(aoa - 1000, 1000)) \div 1000
        tubercle_factor == Min(num_tubercles * 2000, 10000)
        amplitude_factor == Min((amplitude_ratio * 10000) \div 120, 10000)
        vortex_reduction0 ==
            30000 + (5 * ((((aoa_factor * tubercle_factor) \div 10000)
                           * amplitude_factor) \div 10000))
        vortex_reduction == (vortex_reduction0 * 22) \div 10
        broadband_increase == 5000 + (5000 * amplitude_ratio) \div 120
        net_reduction == RoundCentiDb(vortex_reduction - broadband_increase)
    IN  [noise_reduction_db |-> net_reduction,
         reduced_noise_db |-> baseline_noise_db - net_reduction,
         vortex_noise_reduction_db |-> vortex_reduction,
         broadband_noise_increase_db |-> broadband_increase,
         aoa_effectiveness_factor |-> aoa_factor,
         reduction_percentage |-> PercentOf(net_reduction, baseline_noise_db),
         err |-> "none"]

dragonfly_estimate_noise_reduction(baseline_noise_db, corrugation_params, reynolds_number, flow_velocity) ==
    IF ~HasKey(corrugation_params, "depth_m")
       \/ ~HasKey(corrugation_params, "wavelength_m")
       \/ ~HasKey(corrugation_params, "num_corrugations")
    THEN EstimateError("KeyError")
    ELSE IF corrugation_params["wavelength_m"] = 0 \/ baseline_noise_db = 0
    THEN EstimateError("ZeroDivisionError")
    ELSE
    LET depth == corrugation_params["depth_m"]
        wavelength == corrugation_params["wavelength_m"]
        num_corrugations == corrugation_params["num_corrugations"]
        re_factor ==
            IF reynolds_number < 100000 THEN 10000
            ELSE IF reynolds_number < 500000
                 THEN 10000 - (reynolds_number - 100000) \div 80
            ELSE ExpNeg((reynolds_number - 500000) \div 50) \div 2
        depth_factor == Min(depth * 5, 10000)
        num_factor == Min(num_corrugations * 1000, 10000)
        boundary_layer_reduction ==
            ((20000 + 3 * ((((re_factor * depth_factor) \div 10000)
                            * num_factor) \div 10000)) * 21) \div 10
        vortex_reduction ==
            ((10000 + 2 * ((re_factor * num_factor) \div 10000)) * 21) \div 10
        \* 0.5 * (surface_area_ratio - 1.0) * 2.0 = depth / wavelength
        friction_increase == (depth * 10000) \div wavelength
        net_reduction ==
            RoundCentiDb(boundary_layer_reduction + vortex_reduction
                         - friction_increase)
    IN  [noise_reduction_db |-> net_reduction,
         reduced_noise_db |-> baseline_noise_db - net_reduction,
         boundary_layer_reduction_db |-> boundary_layer_reduction,
         vortex_reduction_db |-> vortex_reduction,
         friction_increase_db |-> friction_increase,
         re_effectiveness_factor |-> re_factor,
         reduction_percentage |-> PercentOf(net_reduction, baseline_noise_db),
         err |-> "none"]

\* the estimate_noise_reduction call made for one recognised feature name
estimate_noise_reduction(feature, current_noise, feature_params, operating_conditions) ==
    LET params == Get(feature_params, feature, EmptyDict)
    IN  CASE feature = OWL ->
               owl_estimate_noise_reduction(
                   current_noise, params,
                   Get(operating_conditions, "frequency_hz", 1000),
                   Get(operating_conditions, "velocity", 1000))
          [] feature = HUMP ->
               humpback_estimate_noise_reduction(
                   current_noise, params, operating_conditions)
          [] OTHER ->
               dragonfly_estimate_noise_reduction(
                   current_noise, params,
                   Get(operating_conditions, "reynolds_number", 200000),
                   Get(operating_conditions, "velocity", 1000))

\* state of the loop of estimate_combined_noise_reduction; calls is the
\* sequence of estimate_noise_reduction calls made so far, each with the
\* baseline it was given
CombineInit(baseline_noise_db) ==
    [current_noise |-> baseline_noise_db, total_reduction |-> 0,
     individual_reductions |-> EmptyDict, calls |-> <<>>, err |-> "none"]

\* the loop state after the estimate result of one feature
CombineRecord(st, result, call) ==
    IF result.err # "none"
    THEN [st EXCEPT !.err = result.err, !.calls = Append(st.calls, call)]
    ELSE [current_noise |-> result.reduced_noise_db,
          total_reduction |-> st.total_reduction + result.noise_reduction_db,
          individual_reductions |->
              Put(st.individual_reductions, call.feature,
                  result.noise_reduction_db),
          calls |-> Append(st.calls, call),
          err |-> "none"]

\* a loop body that hands every feature the original baseline
CombineStepOriginalBaseline(st, feature, baseline_noise_db, feature_params, operating_conditions) ==
    IF st.err # "none" \/ feature \notin FeatureNames
    THEN st
    ELSE Bind(estimate_noise_reduction(feature, baseline_noise_db, feature_params,
                                       operating_conditions),
              LAMBDA result :
                  CombineRecord(st, result,
                                [feature |-> feature, baseline |-> baseline_noise_db]))

\* a loop body whose last branch takes every other name
CombineStepAnyName(st, feature, baseline_noise_db, feature_params, operating_conditions) ==
    IF st.err # "none"
    THEN st
    ELSE Bind(estimate_noise_reduction(feature, st.current_noise, feature_params,
                                       operating_conditions),
              LAMBDA result :
                  CombineRecord(st, result,
                                [feature |-> feature, baseline |-> st.current_noise]))

\* one iteration of "for feature in features"
CombineStep(st, feature, baseline_noise_db, feature_params, operating_conditions) ==
    IF st.err # "none" \/ feature \notin FeatureNames
    THEN st
    ELSE Bind(estimate_noise_reduction(feature, st.current_noise, feature_params,
                                       operating_conditions),
              LAMBDA result :
                  CombineRecord(st, result,
                                [feature |-> feature, baseline |-> st.current_noise]))

RECURSIVE CombineLoop(_, _, _, _, _, _)
CombineLoop(st, i, features, baseline_noise_db, feature_params, operating_conditions) ==
    IF i > Len(features)
    THEN st
    ELSE CombineLoop(
             CombineStep(st, features[i], baseline_noise_db, feature_params,
                         operating_conditions),
             i + 1, features, baseline_noise_db, feature_params,
             operating_conditions)

\* a synergy multiplier that does not grow with the number of features
InteractionFactorFlat(features) ==
    IF Len(features) > 1 THEN 118 ELSE 100

\* the synergy multiplier, in hundredths
InteractionFactor(features) ==
    IF Len(features) > 1 THEN 100 + 18 * (Len(features) - 1) ELSE 100

\* the returned mapping, from the loop state st and the synergy multiplier
CombineResult(st, baseline_noise_db, interaction_factor, err) ==
    Bind(Div(st.total_reduction * interaction_factor, 100),
         LAMBDA effective_reduction :
             [total_reduction_db |->
                  IF err = "none" THEN effective_reduction ELSE 0,
              final_noise_db |->
                  IF err = "none"
                  THEN baseline_noise_db - effective_reduction ELSE 0,
              individual_reductions |-> st.individual_reductions,
              interaction_factor |-> interaction_factor,
              reduction_percentage |->
                  IF err = "none"
                  THEN PercentOf(effective_reduction, baseline_noise_db)
                  ELSE 0,
              calls |-> st.calls,
              err |-> err])

\* features is a sequence of names, feature_params maps names to parameter
\* dictionaries; total_reduction_db and final_noise_db in 1e-4 dB,
\* interaction_factor in hundredths
estimate_combined_noise_reduction(baseline_noise_db, features, feature_params, operating_conditions) ==
    Bind(CombineLoop(CombineInit(baseline_noise_db), 1, features,
                     baseline_noise_db, feature_params, operating_conditions),
         LAMBDA st :
             CombineResult(st, baseline_noise_db,
                           InteractionFactor(features),
                           IF st.err # "none" THEN st.err
                           ELSE IF baseline_noise_db = 0
                                THEN "ZeroDivisionError"
                           ELSE "none"))

\* --------------------------------------------------------- NoiseModel (4.1)
\* 20*log10(m/1000) for 1000 <= m < 10000, in 1e-4 dB: tabulated at the
\* mantissas 1.0, 1.5, .., 10.0 and interpolated linearly between them
Db20Table == <<0, 35218, 60206, 79588, 95424, 108814, 120412, 130643,
               139794, 148073, 155630, 162583, 169020, 175012, 180618,
               185884, 190849, 195545, 200000>>
Db20Mantissa(m) ==
    LET i == (m \div 500) - 1
        frac == m % 500
    IN  Db20Table[i] + ((Db20Table[i + 1] - Db20Table[i]) * frac) \div 500

\* 20*log10(n) for an integer n >= 1, in 1e-4 dB
RECURSIVE Db20(_)
Db20(n) ==
    IF n < 1000 THEN Db20(n * 10) - 200000
    ELSE IF n >= 10000 THEN Db20(n \div 10) + 200000
    ELSE Db20Mantissa(n) + 600000

\* 10*log10(1 + 10^(-d/10)) for a level difference d >= 0 in 1e-4 dB:
\* what the louder of two levels gains when their squared pressures add
EnergyGainTable == <<30103, 25390, 21244, 17643, 14554, 11933, 9732, 7901,
                     6389, 5150, 4139, 3320, 2657, 2124, 1695, 1352, 1077,
                     858, 683, 543, 432>>
\* (linear between the entries of the table, at most 72 above the value;
\* the gain at 20 dB and more, below 0.05 dB, is taken as 0)
EnergyGain(d) ==
    IF d >= 200000 THEN 0
    ELSE LET i == (d \div 10000) + 1
             frac == d % 10000
         IN  EnergyGainTable[i]
             - ((EnergyGainTable[i] - EnergyGainTable[i + 1]) * frac)
               \div 10000

\* the two levels added as decibel values
DecibelSum(l1, l2) == l1 + l2

\* 20*log10(sqrt(p1^2 + p2^2)/p_ref) from the two levels
EnergySum(l1, l2) == Max(l1, l2) + EnergyGain(Abs(l1 - l2))

\* calculate_broadband_noise: velocity in cm/s, lengths in micrometres,
\* angle in hundredths of a degree; calculate_spl returns 0 for pressure <= 0
calculate_broadband_noise(velocity, chord_length, blade_thickness, angle_of_attack) ==
    IF velocity <= 0 \/ chord_length <= 0 \/ blade_thickness <= 0
    THEN 0
    ELSE LET aoa_factor == 10000 + (Abs(angle_of_attack) * 10) \div 3
         IN  Db20(50)
             + (11 * (Db20(velocity) - 400000)) \div 2
             + (Db20(chord_length) - 1200000)
             + (Db20(blade_thickness) - 1200000)
             + (Db20(aoa_factor) - 800000)

\* tip speed in mm/s from rpm and the radius in micrometres
TipSpeed(rpm, radius) == (((rpm * radius) \div 60000) * 62832) \div 10000

\* calculate_tonal_noise, harmonic h of the blade passage frequency
TonalHarmonic(h, num_blades, tip_speed) ==
    IF tip_speed <= 0 \/ num_blades <= 0
    THEN 0
    ELSE Db20(250) + 4 * (Db20(tip_speed) - 600000)
         + (Db20(num_blades) - Db20(2)) - (3 * Db20(h)) \div 2

\* calculate_vortex_noise: the SPL (the frequency is computed by the caller)
calculate_vortex_noise(velocity, diameter) ==
    IF velocity <= 0 \/ diameter <= 0
    THEN 0
    ELSE Db20(40) + 3 * (Db20(velocity) - 400000) + (Db20(diameter) - 1200000)

\* frequencies in tenths of a hertz
calculate_total_noise(propeller_params, operating_conditions) ==
    LET rpm == Get(operating_conditions, "rpm", 5000)
        velocity == Get(operating_conditions, "velocity", 1000)
        chord == Get(propeller_params, "chord_length", 50000)
        thickness == Get(propeller_params, "blade_thickness", 5000)
        num_blades == Get(propeller_params, "num_blades", 2)
        radius == Get(propeller_params, "radius", 127000)
        aoa == Get(propeller_params, "angle_of_attack", 500)
        tip_speed == TipSpeed(rpm, radius)
        broadband_spl == calculate_broadband_noise(velocity, chord,
                                                   thickness, aoa)
        tonal_spl_primary == TonalHarmonic(1, num_blades, tip_speed)
        vortex_spl == calculate_vortex_noise(velocity, thickness)
        total_spl == EnergySum(EnergySum(broadband_spl, tonal_spl_primary),
                               vortex_spl)
    IN  IF thickness = 0
        THEN [err |-> "ZeroDivisionError"]
        ELSE [total_spl_db |-> total_spl,
              broadband_spl_db |-> broadband_spl,
              tonal_spl_db |-> tonal_spl_primary,
              vortex_spl_db |-> vortex_spl,
              vortex_frequency_hz |-> Div(velocity * 20000, thickness),
              BPF_harmonic_1 |-> tonal_spl_primary,
              frequency_hz_1 |-> (rpm * num_blades) \div 6,
              BPF_harmonic_2 |-> TonalHarmonic(2, num_blades, tip_speed),
              frequency_hz_2 |-> (rpm * num_blades * 2) \div 6,
              BPF_harmonic_3 |-> TonalHarmonic(3, num_blades, tip_speed),
              frequency_hz_3 |-> (rpm * num_blades * 3) \div 6,
              err |-> "none"]

\* -------------------------------------------------------- ThrustModel (4.2)
NumElements == 20

\* np.linspace(0.2 R, R, 20)[i] / R = (19 + 4 i) / 95, i = 0..19
LocalChord(chord_root, chord_tip, i) ==
    chord_root + Div((chord_tip - chord_root) * (19 + 4 * i), 95)

\* sum over the blade elements of (r/R)^2 * chord, in micrometres
RECURSIVE SumR2Chord(_, _, _)
SumR2Chord(chord_root, chord_tip, i) ==
    IF i >= NumElements THEN 0
    ELSE Div((19 + 4 * i) * (19 + 4 * i)
               * LocalChord(chord_root, chord_tip, i), 9025)
         + SumR2Chord(chord_root, chord_tip, i + 1)

\* sum over the blade elements of (r/R)^3 * chord, in micrometres
RECURSIVE SumR3Chord(_, _, _)
SumR3Chord(chord_root, chord_tip, i) ==
    IF i >= NumElements THEN 0
    ELSE Div(Div((19 + 4 * i) * (19 + 4 * i)
                   * LocalChord(chord_root, chord_tip, i), 9025)
               * (19 + 4 * i), 95)
         + SumR3Chord(chord_root, chord_tip, i + 1)

\* a ratio of powers in 1e-4 returned as it is
Uncapped(x) == x

\* min(x, 1.0) on a ratio of powers in 1e-4; nan stays nan
CapAtOne(x) == IF x # NaN /\ 10000 < x THEN 10000 ELSE x

\* thrust in mN, torque in uN m, power in mW, efficiency in 1e-4;
\* air density 1.225, so 0.5 * rho = 0.6125
calculate_thrust_blade_element(rpm, blade_params, num_blades) ==
    LET radius == Get(blade_params, "radius", 127000)
        chord_root == Get(blade_params, "chord_root", 30000)
        chord_tip == Get(blade_params, "chord_tip", 15000)
        pitch_angle == Div(Get(blade_params, "pitch_angle", 1000) * 174533,
                           10000)
        cl_slope == Get(blade_params, "cl_slope", 628319)
        omega == (rpm * 10472) \div 100
        dr == (8 * radius) \div 190
        tip == TipSpeed(rpm, radius)
        tip2 == ((tip \div 10) * (tip \div 10)) \div 100
        cl == Div((cl_slope \div 100) * pitch_angle, 10000)
        cd == 10000 + (pitch_angle * pitch_angle) \div 200000
        s2 == SumR2Chord(chord_root, chord_tip, 0)
        s3 == SumR3Chord(chord_root, chord_tip, 0)
        t1 == Div((tip2 \div 100) * cl, 100)
        t2 == Div(Div(t1, 10) * dr, 1000)
        t3 == Div(t2, 100) * Div(s2, 100)
        total_thrust == Div(Div(t3, 1000) * 6125 * num_blades, 10000)
        q1 == (tip2 \div 100) * (cd \div 10)
        q2 == ((q1 \div 100) * dr) \div 1000
        q3 == (q2 \div 100) * Div(s3, 100)
        q4 == Div(q3, 100) * (radius \div 1000)
        total_torque == Div(Div(q4, 100) * 6125 * num_blades, 100000)
        power == Div(total_torque * (omega \div 100), 10000)
        disk == (((radius \div 1000) * (radius \div 1000)) * 76969) \div 10000
        v_induced == ISqrt(Div(total_thrust * 100000, disk) * 10000)
        ideal_power == Div(total_thrust * v_induced, 1000)
        efficiency == IF power > 0
                      THEN Div(ideal_power * 10000, power) ELSE 0
    IN  [thrust_N |-> total_thrust,
         torque_Nm |-> total_torque,
         power_W |-> power,
         efficiency |-> CapAtOne(efficiency)]

\* thrust / (2 * rho * disk_area), the radius in micrometres; the quotient
\* is in 1e-4 m^2/s^2 for a thrust in mN
DiskLoading(thrust, radius) ==
    Div(thrust * 100000,
        (((radius \div 1000) * (radius \div 1000)) * 76969) \div 10000)

\* thrust in mN, power in mW, radius in micrometres, the value in 1e-4;
\* the square root of a negative number is nan
calculate_figure_of_merit(thrust, power, radius) ==
    IF power <= 0 THEN [err |-> "none", value |-> 0]
    ELSE IF radius \div 1000 = 0 THEN [err |-> "ZeroDivisionError"]
    ELSE IF thrust < 0 THEN [err |-> "none", value |-> CapAtOne(NaN)]
    ELSE [err |-> "none",
          value |->
              CapAtOne(Div(Div(thrust
                                 * ISqrt(DiskLoading(thrust, radius) * 10000),
                               1000) * 10000,
                           power))]

\* ------------------------------------------------------ MetricsEngine (4.3)
\* ordered comparisons of floats; false whenever an operand is nan
FloatLT(a, b) == a # NaN /\ b # NaN /\ a < b
FloatGT(a, b) == a # NaN /\ b # NaN /\ a > b
FloatGE(a, b) == a # NaN /\ b # NaN /\ a >= b

\* an optional baseline NTR: None, or a value
NoBaseline == [given |-> FALSE, v |-> 0]
Baseline(v) == [given |-> TRUE, v |-> v]

calculate_noise_to_thrust_ratio_zero(noise_spl_db, thrust_N, reference_thrust) ==
    IF thrust_N <= 0
    THEN 0
    ELSE Div(noise_spl_db * reference_thrust, thrust_N)

\* noise in 1e-4 dB, thrust and reference_thrust in mN; 1e-4 dB per N
calculate_noise_to_thrust_ratio(noise_spl_db, thrust_N, reference_thrust) ==
    IF thrust_N <= 0
    THEN Inf
    ELSE Div(noise_spl_db * reference_thrust, thrust_N)

\* tenths
calculate_acoustic_efficiency(noise_spl_db, thrust_N, power_W) ==
    IF noise_spl_db <= 0 \/ power_W <= 0
    THEN 0
    ELSE Div(Div(thrust_N * 10000, power_W) * 10000, Max(noise_spl_db \div 100, 1))

\* hundredths of a percent; inf and nan as float arithmetic gives them
calculate_noise_reduction_percentage(baseline_ntr, modified_ntr) ==
    IF FloatGE(0, baseline_ntr) THEN 0
    ELSE IF baseline_ntr = NaN \/ modified_ntr = NaN THEN NaN
    ELSE IF baseline_ntr = Inf THEN NaN
    ELSE IF modified_ntr = Inf THEN NegInf
    ELSE Div((baseline_ntr - modified_ntr) * 1000, baseline_ntr) * 10

\* the metrics with a target flag that asks for more than 15 percent
evaluate_design_performance_strict(noise_results, thrust_results, baseline_ntr) ==
    Bind(calculate_noise_to_thrust_ratio(
             Get(noise_results, "total_spl_db", 0),
             Get(thrust_results, "thrust_N", 0), 1000),
         LAMBDA ntr :
             IF baseline_ntr.given
             THEN [noise_to_thrust_ratio_dB_per_N |-> ntr,
                   noise_reduction_percentage |->
                       calculate_noise_reduction_percentage(baseline_ntr.v,
                                                            ntr),
                   meets_15_percent_target |->
                       FloatGT(calculate_noise_reduction_percentage(
                                   baseline_ntr.v, ntr), 1500)]
             ELSE [noise_to_thrust_ratio_dB_per_N |-> ntr])

evaluate_design_performance(noise_results, thrust_results, baseline_ntr) ==
    LET total_noise == Get(noise_results, "total_spl_db", 0)
        thrust == Get(thrust_results, "thrust_N", 0)
        power == Get(thrust_results, "power_W", 1000)
        efficiency == Get(thrust_results, "efficiency", 0)
        ntr == calculate_noise_to_thrust_ratio(total_noise, thrust, 1000)
        results ==
            [noise_to_thrust_ratio_dB_per_N |-> ntr,
             acoustic_efficiency |->
                 calculate_acoustic_efficiency(total_noise, thrust, power),
             total_noise_spl_db |-> total_noise,
             thrust_N |-> thrust,
             power_W |-> power,
             propulsive_efficiency |-> efficiency,
             broadband_noise_db |-> Get(noise_results, "broadband_spl_db", 0),
             tonal_noise_db |-> Get(noise_results, "tonal_spl_db", 0),
             vortex_noise_db |-> Get(noise_results, "vortex_spl_db", 0)]
        reduction == calculate_noise_reduction_percentage(baseline_ntr.v, ntr)
    IN  IF baseline_ntr.given
        THEN Put(Put(results, "noise_reduction_percentage", reduction),
                 "meets_15_percent_target", FloatGE(reduction, 1500))
        ELSE results

\* the keys of a noise spectrum that hold a frequency, not a level
FrequencyKeys ==
    {"vortex_frequency_hz", "frequency_hz_1", "frequency_hz_2",
     "frequency_hz_3"}

\* the level of one weighted pressure, the weight in thousandths and not 0
WeightedLevel(spl, weight) == spl + Db20(Abs(weight)) - Db20(1000)

\* the loop of calculate_weighted_noise_metric over the items of the
\* spectrum in insertion order; acc.some is total_weighted_pressure_sq > 0
\* and acc.level the level of the pressures added so far
RECURSIVE WeightedLoop(_, _, _, _)
WeightedLoop(acc, i, noise_spectrum, frequency_weights) ==
    IF i > Len(noise_spectrum) THEN acc
    ELSE IF noise_spectrum[i].key \in FrequencyKeys
              \/ Get(frequency_weights, noise_spectrum[i].key, 1000) = 0
         THEN WeightedLoop(acc, i + 1, noise_spectrum, frequency_weights)
    ELSE WeightedLoop(
             [some |-> TRUE,
              level |->
                  IF acc.some
                  THEN EnergySum(
                           acc.level,
                           WeightedLevel(
                               noise_spectrum[i].spl,
                               Get(frequency_weights, noise_spectrum[i].key,
                                   1000)))
                  ELSE WeightedLevel(
                           noise_spectrum[i].spl,
                           Get(frequency_weights, noise_spectrum[i].key,
                               1000))],
             i + 1, noise_spectrum, frequency_weights)

\* noise_spectrum is the sequence of the (key, spl) items of the mapping;
\* frequency_weights is optional and maps keys to weights in thousandths
calculate_weighted_noise_metric(noise_spectrum, frequency_weights) ==
    IF noise_spectrum = <<>> THEN 0
    ELSE Bind(WeightedLoop([some |-> FALSE, level |-> 0], 1, noise_spectrum,
                           IF frequency_weights.given
                           THEN frequency_weights.v ELSE EmptyDict),
              LAMBDA acc : IF acc.some THEN acc.level ELSE 0)

\* ---------------------------------------------------------- Evaluator (4.6)
EvaluationError(e) == [err |-> e]

\* an evaluation whose thrust pass follows the stall angle the geometry
\* carries: the pitch is moved by the distance of stall_angle_deg from 12
evaluate_design_stall(h, propeller_geometry, operating_conditions, baseline_ntr) ==
    LET geom == h[propeller_geometry]
        noise_results == calculate_total_noise(geom, operating_conditions)
        rpm == Get(operating_conditions, "rpm", 5000)
        blade_params ==
            [radius |-> Get(geom, "radius_m", 127000),
             chord_root |-> Get(geom, "chord_root", 30000),
             chord_tip |-> Get(geom, "chord_tip", 15000),
             pitch_angle |-> Get(geom, "pitch_angle", 1000)
                                 + Get(geom, "stall_angle_deg", 1200) - 1200,
             cl_slope |-> Get(geom, "cl_slope", 628318)]
        num_blades == Get(geom, "num_blades", 2)
        thrust_results ==
            calculate_thrust_blade_element(rpm, blade_params, num_blades)
    IN  IF noise_results.err # "none"
        THEN EvaluationError(noise_results.err)
        ELSE [noise_analysis |-> noise_results,
              thrust_analysis |-> thrust_results,
              performance_metrics |->
                  evaluate_design_performance(noise_results, thrust_results,
                                              baseline_ntr),
              propeller_geometry |-> propeller_geometry,
              operating_conditions |-> operating_conditions,
              err |-> "none"]

\* propeller_geometry is an address of the heap h, which is only read
evaluate_design(h, propeller_geometry, operating_conditions, baseline_ntr) ==
    LET geom == h[propeller_geometry]
        noise_results == calculate_total_noise(geom, operating_conditions)
        rpm == Get(operating_conditions, "rpm", 5000)
        blade_params ==
            [radius |-> Get(geom, "radius_m", 127000),
             chord_root |-> Get(geom, "chord_root", 30000),
             chord_tip |-> Get(geom, "chord_tip", 15000),
             pitch_angle |-> Get(geom, "pitch_angle", 1000),
             cl_slope |-> Get(geom, "cl_slope", 628318)]
        num_blades == Get(geom, "num_blades", 2)
        thrust_results ==
            calculate_thrust_blade_element(rpm, blade_params, num_blades)
    IN  IF noise_results.err # "none"
        THEN EvaluationError(noise_results.err)
        ELSE [noise_analysis |-> noise_results,
              thrust_analysis |-> thrust_results,
              performance_metrics |->
                  evaluate_design_performance(noise_results, thrust_results,
                                              baseline_ntr),
              propeller_geometry |-> propeller_geometry,
              operating_conditions |-> operating_conditions,
              err |-> "none"]

\* the parameter records step (3) reads back from the composed geometry
ExtractFeatureParams(h, modified_geometry, features) ==
    LET key(f) == CASE f = OWL -> "trailing_edge_serrations"
                    [] f = HUMP -> "leading_edge_tubercles"
                    [] OTHER -> "surface_corrugations"
        geom == h[modified_geometry]
    IN  [f \in {x \in FeatureNames : InList(x, features)} |->
            IF HasKey(geom, key(f)) THEN h[geom[key(f)]] ELSE EmptyDict]

\* a step (5) that stores the reduced level but keeps the first-pass metrics
ApplyReductionStaleMetrics(evaluation, reduction_results, baseline_ntr) ==
    [evaluation EXCEPT !.noise_analysis =
        Put(Put(Put(evaluation.noise_analysis,
                    "total_spl_db", reduction_results.final_noise_db),
                "noise_reduction_db", reduction_results.total_reduction_db),
            "bio_inspired_reduction", reduction_results)]

\* step (5): overwrite the noise total, recompute the metrics
ApplyReduction(evaluation, reduction_results, baseline_ntr) ==
    LET noise_analysis ==
            Put(Put(Put(evaluation.noise_analysis,
                        "total_spl_db", reduction_results.final_noise_db),
                    "noise_reduction_db", reduction_results.total_reduction_db),
                "bio_inspired_reduction", reduction_results)
    IN  [evaluation EXCEPT
            !.noise_analysis = noise_analysis,
            !.performance_metrics =
                evaluate_design_performance(noise_analysis,
                                            evaluation.thrust_analysis,
                                            baseline_ntr)]

\* the returned evaluation: bio_inspired_features, modified_geometry (an
\* address of h) and h, the heap after the call, added
BioEvaluation(final, features, design) ==
    [noise_analysis |-> final.noise_analysis,
     thrust_analysis |-> final.thrust_analysis,
     performance_metrics |-> final.performance_metrics,
     propeller_geometry |-> final.propeller_geometry,
     operating_conditions |-> final.operating_conditions,
     bio_inspired_features |-> features,
     modified_geometry |-> design.ret,
     h |-> design.h,
     err |-> "none"]

\* an evaluation that leaves the first-pass noise as it is
ReduceEvaluationSkipped(evaluation, features, design, operating_conditions, baseline_ntr) ==
    BioEvaluation(evaluation, features, design)

\* the "if features:" block on the first-pass evaluation
ReduceEvaluation(evaluation, features, design, operating_conditions, baseline_ntr) ==
    Bind(estimate_combined_noise_reduction(
             evaluation.noise_analysis["total_spl_db"], features,
             ExtractFeatureParams(design.h, design.ret, features),
             operating_conditions),
         LAMBDA reduction_results :
             IF reduction_results.err # "none"
             THEN [err |-> reduction_results.err, h |-> design.h]
             ELSE BioEvaluation(
                      ApplyReduction(evaluation, reduction_results,
                                     baseline_ntr),
                      features, design))

evaluate_bio_inspired_design(h, base_geometry, features, operating_conditions, baseline_ntr) ==
    Bind(create_design(h, base_geometry, features, NoConfigs),
         LAMBDA design :
             IF design.err # "none"
             THEN [err |-> design.err, h |-> design.h]
             ELSE Bind(evaluate_design(design.h, design.ret,
                                       operating_conditions, baseline_ntr),
                       LAMBDA evaluation :
                           IF evaluation.err # "none"
                           THEN [err |-> evaluation.err, h |-> design.h]
                           ELSE IF features = <<>>
                           THEN BioEvaluation(evaluation, features, design)
                           ELSE ReduceEvaluation(
                                    evaluation, features, design,
                                    operating_conditions, baseline_ntr)))

\* ================================================================== state
VARIABLES
    heap,        \* the caller's objects, then the objects of the last result
    conditions,  \* the operating conditions the caller works with
    ret,         \* address of the record the last call returned, or None
    last,        \* the last completed call: its name, arguments and result
    history,     \* PropellerOptimizer.history
    opt,         \* the locals of the optimize call in progress
    requested    \* sum of num_iterations of the optimize calls since the
                 \* history was last empty by construction or clear_history

vars == <<heap, conditions, ret, last, history, opt, requested>>

\* ---------------------------------------------------- the caller's objects
BaseAddr == 1          \* the caller's geometry record
MaterialAddr == 2      \* its material_properties
OwlConfigAddr == 3     \* configs the caller may pass to the feature models
HumpConfigAddr == 4
DragonConfigAddr == 5
NumCallerObjects == 5
ConfigAddr(f) == CASE f = OWL -> OwlConfigAddr
                   [] f = HUMP -> HumpConfigAddr
                   [] OTHER -> DragonConfigAddr

\* BaselinePropeller.get_standard_2_blade
Standard2Blade ==
    [name |-> "Standard 2-Blade Commercial", num_blades |-> 2,
     diameter_m |-> 254000, radius_m |-> 127000, chord_root |-> 35000,
     chord_tip |-> 15000, chord_length |-> 25000, blade_thickness |-> 5000,
     pitch_angle |-> 1000, twist_distribution |-> "linear",
     angle_of_attack |-> 500, cl_max |-> 12000, cl_slope |-> 628318,
     drag_coefficient |-> 2000, stall_angle_deg |-> 1200,
     material_properties |-> MaterialAddr, design_type |-> "baseline"]

\* density kg/m^3, moduli in MPa
Material ==
    [density |-> 1200, youngs_modulus |-> 70000, yield_strength |-> 600]

\* the sparse geometry the unit tests pass to the factory
TestGeometry == [chord_length |-> 50000, radius |-> 127000]

BaseGeometries == {Standard2Blade, TestGeometry}

\* BaselinePropeller.get_typical_operating_conditions (the keys the engine
\* reads), a stopped rotor, a fast high-incidence case and an empty mapping
TypicalConditions ==
    [rpm |-> 5000, velocity |-> 1000, angle_of_attack |-> 500,
     reynolds_number |-> 200000, frequency_hz |-> 1000]
StoppedConditions == [TypicalConditions EXCEPT !.rpm = 0]
FastConditions ==
    [rpm |-> 3000, velocity |-> 1500, angle_of_attack |-> 1200,
     reynolds_number |-> 600000, frequency_hz |-> 4000]
ConditionSets ==
    {TypicalConditions, StoppedConditions, FastConditions, EmptyDict}

\* configs as a caller obtains them from the geometry derivations
CallerConfig(geom, f) ==
    CASE f = OWL ->
           calculate_serration_geometry(
               Get(geom, "chord_length", 50000), 80, 40, None).d
      [] f = HUMP ->
           calculate_tubercle_geometry(
               Get(geom, "radius", 127000), 100, 300, None).d
      [] OTHER ->
           calculate_corrugation_geometry(
               Get(geom, "chord_length", 50000), 45, 40, None).d

InitHeap(geom) ==
    <<geom, Material, CallerConfig(geom, OWL), CallerConfig(geom, HUMP),
      CallerConfig(geom, DRAGON)>>

CallerHeap == SubSeq(heap, 1, NumCallerObjects)

\* feature lists a caller passes: every sequence of at most MaxFeatures
\* names, recognised or not, in any order, with repetitions
RECURSIVE SeqsUpTo(_, _)
SeqsUpTo(S, n) ==
    IF n = 0 THEN {<<>>}
    ELSE LET shorter == SeqsUpTo(S, n - 1)
         IN  shorter \cup {Append(q, x) : q \in shorter, x \in S}
FeatureLists == SeqsUpTo(FeatureNames \cup {UNKNOWN}, MaxFeatures)

OptIdle ==
    [pc |-> "idle", objective |-> "", num_iterations |-> 0,
     features |-> <<>>, iteration |-> 0, best_design |-> [none |-> TRUE],
     best_score |-> 0, baseline_ntr |-> 0, baseline_calls |-> 0,
     start_len |-> 0]

\* the factory and the feature models are driven on each caller geometry
InitFactory ==
    /\ \E geom \in BaseGeometries : heap = InitHeap(geom)
    /\ conditions = TypicalConditions
    /\ ret = None
    /\ last = [op |-> "idle"]
    /\ history = <<>>
    /\ opt = OptIdle
    /\ requested = 0

\* the evaluator is driven on each caller geometry and operating point
InitEvaluator ==
    /\ \E geom \in BaseGeometries : heap = InitHeap(geom)
    /\ conditions \in ConditionSets
    /\ ret = None
    /\ last = [op |-> "idle"]
    /\ history = <<>>
    /\ opt = OptIdle
    /\ requested = 0

\* ------------------------------------------------- calls into the library
\* what the caller can compare afterwards: its records as they were
Snapshot == [geometry |-> DeepValue(heap, BaseAddr), objects |-> CallerHeap]

ApplyToBladeDesign ==
    \E f \in FeatureNames, use_config \in BOOLEAN :
        /\ last.op = "idle"
        /\ LET config == IF use_config THEN ConfigAddr(f) ELSE None
               r == apply_to_blade_design(CallerHeap, f, BaseAddr, config)
           IN  /\ heap' = r.h
               /\ ret' = r.ret
               /\ last' = [op |-> "apply_to_blade_design", feature |-> f,
                           config |-> config, err |-> r.err,
                           pre |-> Snapshot]
               /\ UNCHANGED <<conditions, history, opt, requested>>

CreateDesign ==
    \E features \in FeatureLists, with_config \in SUBSET FeatureNames :
        /\ last.op = "idle"
        /\ LET custom_configs == [f \in with_config |-> ConfigAddr(f)]
               r == create_design(CallerHeap, BaseAddr, features,
                                  custom_configs)
           IN  /\ heap' = r.h
               /\ ret' = r.ret
               /\ last' = [op |-> "create_design", features |-> features,
                           custom_configs |-> custom_configs,
                           applied |-> r.applied, err |-> r.err,
                           pre |-> Snapshot]
               /\ UNCHANGED <<conditions, history, opt, requested>>

\* the counts of variants a caller asks for
VariantCounts == (0 - 1)..6

GenerateDesignVariants ==
    \E num_variants \in VariantCounts :
        /\ last.op = "idle"
        /\ \E r \in {generate_design_variants(CallerHeap, BaseAddr,
                                               num_variants)} :
               /\ heap' = r.h
               /\ ret' = None
               /\ last' = [op |-> "generate_design_variants",
                           num_variants |-> num_variants,
                           variants |-> r.variants, err |-> r.err,
                           pre |-> Snapshot]
        /\ UNCHANGED <<conditions, history, opt, requested>>

\* the field a caller rewrites in a nested object, by the key that holds it
MutatedField(k) ==
    CASE k = "material_properties" -> "density"
      [] k = "trailing_edge_serrations" -> "depth_m"
      [] k = "leading_edge_tubercles" -> "amplitude_ratio"
      [] k = "surface_corrugations" -> "depth_m"
      [] OTHER -> "moment_area_factor"
NestedDictKeys == RefKeys \ {"bio_inspired_features"}

\* after a call, the caller assigns to a field of a nested object, reaching
\* it through the returned record or through its own record
CallerMutatesNested ==
    /\ ret # None
    /\ last.op \in {"apply_to_blade_design", "create_design"}
    /\ \E root \in {BaseAddr, ret} :
       \E k \in (DOMAIN heap[root]) \cap NestedDictKeys :
          LET a == heap[root][k]
          IN  /\ heap' = Store(heap, a, Put(heap[a], MutatedField(k), 1))
              /\ last' = [op |-> "mutate", root |-> root, key |-> k,
                          target |-> a,
                          pre |-> [base |-> DeepValue(heap, BaseAddr),
                                   returned |-> DeepValue(heap, ret),
                                   objects |-> CallerHeap]]
    /\ UNCHANGED <<conditions, ret, history, opt, requested>>

\* parameter mappings handed to estimate_combined_noise_reduction: the ones
\* the feature models derive for the caller's geometry, the caller's own
\* configs, or a mapping without entries
DerivedParams(geom) ==
    [f \in FeatureNames |->
        CASE f = OWL ->
               calculate_serration_geometry(
                   Get(geom, "chord_length", 50000), 50, 20, None).d
          [] f = HUMP ->
               calculate_tubercle_geometry(
                   Get(geom, "radius", 127000), 120, 250, None).d
          [] OTHER ->
               calculate_corrugation_geometry(
                   Get(geom, "chord_length", 50000), 30, 50, None).d]
ConfigParams == [f \in FeatureNames |-> heap[ConfigAddr(f)]]
FeatureParamChoices == {DerivedParams(heap[BaseAddr]), ConfigParams, EmptyDict}

\* baseline levels handed to estimate_combined_noise_reduction: 0, 60 and
\* 80 dB, and 2.8 dB, the level the caller's serrations take away
BaselineLevels == {0, 28000, 600000, 800000}

EstimateCombined ==
    \E baseline_noise_db \in BaselineLevels, features \in FeatureLists,
       feature_params \in FeatureParamChoices :
        /\ last.op = "idle"
        /\ last' = [op |-> "estimate_combined_noise_reduction",
                    baseline_noise_db |-> baseline_noise_db,
                    features |-> features,
                    feature_params |-> feature_params,
                    result |-> estimate_combined_noise_reduction(
                                   baseline_noise_db, features,
                                   feature_params, conditions)]
        /\ heap' = CallerHeap
        /\ ret' = None
        /\ UNCHANGED <<conditions, history, opt, requested>>

\* the NTR of the unmodified geometry, as a caller obtains it beforehand
BaseNtr ==
    evaluate_design(CallerHeap, BaseAddr, conditions, NoBaseline)
        .performance_metrics["noise_to_thrust_ratio_dB_per_N"]

EvaluateDesign ==
    \E baseline_ntr \in {NoBaseline, Baseline(BaseNtr)} :
        /\ last.op = "idle"
        /\ last' = [op |-> "evaluate_design", baseline_ntr |-> baseline_ntr,
                    evaluation |-> evaluate_design(CallerHeap, BaseAddr,
                                                   conditions, baseline_ntr)]
        /\ heap' = CallerHeap
        /\ ret' = None
        /\ UNCHANGED <<conditions, history, opt, requested>>

EvaluateBioInspiredDesign ==
    \E features \in FeatureLists,
       baseline_ntr \in {NoBaseline, Baseline(BaseNtr)} :
        /\ last.op = "idle"
        /\ LET r == evaluate_bio_inspired_design(
                        CallerHeap, BaseAddr, features, conditions,
                        baseline_ntr)
           IN  /\ heap' = r.h
               /\ ret' = IF r.err = "none" THEN r.modified_geometry ELSE None
               /\ last' = [op |-> "evaluate_bio_inspired_design",
                           features |-> features,
                           baseline_ntr |-> baseline_ntr,
                           evaluation |-> r, pre |-> Snapshot]
               /\ UNCHANGED <<conditions, history, opt, requested>>

\* the caller lets go of the last result; a scenario in which the caller
\* rewrote a nested object ends there
Discard ==
    /\ last.op \notin {"idle", "mutate"}
    /\ opt.pc = "idle"
    /\ heap' = CallerHeap
    /\ ret' = None
    /\ last' = [op |-> "idle"]
    /\ UNCHANGED <<conditions, history, opt, requested>>

NextFactory ==
    \/ Discard
    \/ ApplyToBladeDesign
    \/ CreateDesign
    \/ CallerMutatesNested
    \/ GenerateDesignVariants

\* the feature models and the factory, as a caller drives them
SpecFactory == InitFactory /\ [][NextFactory]_vars

\* ---------------------------------------------------------- Optimizer (4.7)
\* the recognised names a feature list holds
NamedIn(features) == {f \in FeatureNames : InList(f, features)}

Objectives == {"minimize_ntr", "maximize_efficiency", "maximize_noise_reduction"}
NTR == "noise_to_thrust_ratio_dB_per_N"

\* best_score before the first trial
InitialBestScore(objective) ==
    IF objective = "minimize_ntr" THEN Inf ELSE NegInf

\* the n-th np.random.uniform(lo, hi) of a call, for the generator state
\* seed the call starts from; the value lies in [lo, hi)
Uniform(seed, n, lo, hi) == lo + (((seed * 7 + n * 3) % 10) * (hi - lo)) \div 10

CountNamed(features, names) == Cardinality({f \in names : InList(f, features)})

\* ratios in ten-thousandths
generate_random_configs(features, seed) ==
    LET n_hump == 2 * CountNamed(features, {OWL})
        n_dragon == 2 * CountNamed(features, {OWL, HUMP})
    IN  [f \in NamedIn(features) |->
            CASE f = OWL ->
                   [serration_depth_ratio |-> Uniform(seed, 0, 300, 800),
                    serration_wavelength_ratio |-> Uniform(seed, 1, 150, 400)]
              [] f = HUMP ->
                   [amplitude_ratio |-> Uniform(seed, n_hump, 800, 1400),
                    wavelength_ratio |->
                        Uniform(seed, n_hump + 1, 2000, 3500)]
              [] OTHER ->
                   [corrugation_depth_ratio |->
                        Uniform(seed, n_dragon, 250, 450),
                    corrugation_wavelength_ratio |->
                        Uniform(seed, n_dragon + 1, 400, 700)]]

\* the score of a trial under the objective
TrialScore(objective, evaluation) ==
    CASE objective = "minimize_ntr" -> evaluation.performance_metrics[NTR]
      [] objective = "maximize_efficiency" ->
           evaluation.thrust_analysis["efficiency"]
      [] OTHER ->
           Get(evaluation.performance_metrics, "noise_reduction_percentage", 0)

IsBetterOrEqual(objective, score, best_score) ==
    IF objective = "minimize_ntr"
    THEN ~FloatGT(score, best_score) /\ score # NaN
    ELSE FloatGE(score, best_score)

IsBetter(objective, score, best_score) ==
    IF objective = "minimize_ntr"
    THEN FloatLT(score, best_score)
    ELSE FloatGT(score, best_score)

UpdateBestAlways(best, is_better, candidate) == candidate

\* best and candidate pair a score with the design that attained it
UpdateBest(best, is_better, candidate) ==
    IF is_better THEN candidate ELSE best

AppendHistoryKeepLast(h, entry) == <<entry>>

AppendHistory(h, entry) == Append(h, entry)

NoDesign == [none |-> TRUE]

\* the loop state after the comparison of one trial
LoopRecord(o, h, evaluation, score, best) ==
    [opt |-> [o EXCEPT !.best_score = best.score,
                       !.best_design = best.design,
                       !.iteration = o.iteration + 1],
     history |-> AppendHistory(h,
                     [iteration |-> o.iteration, score |-> score,
                      ntr |-> evaluation.performance_metrics[NTR]])]

\* the evaluation with the value the objective reads set to score
WithScore(evaluation, objective, score) ==
    CASE objective = "minimize_ntr" ->
           [evaluation EXCEPT !.performance_metrics =
                Put(evaluation.performance_metrics, NTR, score)]
      [] objective = "maximize_efficiency" ->
           [evaluation EXCEPT !.thrust_analysis =
                Put(evaluation.thrust_analysis, "efficiency", score)]
      [] OTHER ->
           [evaluation EXCEPT !.performance_metrics =
                Put(evaluation.performance_metrics,
                    "noise_reduction_percentage", score)]

\* the serration depth ratio the sampler drew, 0 without serrations
SampledDepth(custom_configs) ==
    IF OWL \in DOMAIN custom_configs
    THEN custom_configs[OWL].serration_depth_ratio ELSE 0

\* a loop body whose trial is scored on the sampled parameters as well
LoopBodySampled(o, h, evaluation, custom_configs) ==
    Bind(WithScore(evaluation, o.objective,
                   IF TrialScore(o.objective, evaluation)
                          \in {Inf, NegInf, NaN}
                   THEN TrialScore(o.objective, evaluation)
                   ELSE TrialScore(o.objective, evaluation)
                            + SampledDepth(custom_configs)),
         LAMBDA sampled :
             Bind(TrialScore(o.objective, sampled),
                  LAMBDA score :
                      LoopRecord(o, h, sampled, score,
                          UpdateBest([score |-> o.best_score,
                                      design |-> o.best_design],
                                     IsBetter(o.objective, score,
                                              o.best_score),
                                     [score |-> score,
                                      design |->
                                          [none |-> FALSE,
                                           geometry |->
                                               sampled.modified_geometry,
                                           evaluation |-> sampled,
                                           configs |-> custom_configs,
                                           iteration |-> o.iteration,
                                           score |-> score]]))))

\* one pass of the loop body on the evaluation of the trial
LoopBody(o, h, evaluation, custom_configs) ==
    Bind(TrialScore(o.objective, evaluation),
         LAMBDA score :
             LoopRecord(o, h, evaluation, score,
                 UpdateBest([score |-> o.best_score,
                             design |-> o.best_design],
                            IsBetter(o.objective, score, o.best_score),
                            [score |-> score,
                             design |->
                                 [none |-> FALSE,
                                  geometry |-> evaluation.modified_geometry,
                                  evaluation |-> evaluation,
                                  configs |-> custom_configs,
                                  iteration |-> o.iteration,
                                  score |-> score]])))

\* (baseline_ntr - ntr) / baseline_ntr * 100 in hundredths of a percent
ImprovementPercentage(baseline_ntr, ntr) ==
    IF baseline_ntr = 0 THEN [v |-> NaN, err |-> "ZeroDivisionError"]
    ELSE [err |-> "none",
          v |-> IF baseline_ntr \in {NaN, Inf, NegInf} \/ ntr = NaN THEN NaN
                ELSE IF ntr = Inf
                     THEN (IF baseline_ntr > 0 THEN NegInf ELSE Inf)
                ELSE IF ntr = NegInf
                     THEN (IF baseline_ntr > 0 THEN Inf ELSE NegInf)
                ELSE Div((baseline_ntr - ntr) * 1000, baseline_ntr) * 10]

\* what optimize_bio_inspired_parameters hands back after the loop
OptimizeResult(best_design, baseline_ntr) ==
    IF best_design.none
    THEN [err |-> "none", design |-> NoDesign]
    ELSE Bind(ImprovementPercentage(
                  baseline_ntr,
                  best_design.evaluation.performance_metrics[NTR]),
              LAMBDA improvement :
                  IF improvement.err # "none"
                  THEN [err |-> improvement.err, design |-> NoDesign]
                  ELSE [err |-> "none",
                        design |->
                            [none |-> FALSE,
                             geometry |-> best_design.geometry,
                             evaluation |-> best_design.evaluation,
                             configs |-> best_design.configs,
                             iteration |-> best_design.iteration,
                             score |-> best_design.score,
                             improvement_over_baseline_percentage |->
                                 improvement.v,
                             baseline_ntr |-> baseline_ntr]])

\* the parts of an evaluation the optimizer keeps or reads, with the
\* composed geometry by value
TrialEvaluation(r) ==
    [performance_metrics |-> r.performance_metrics,
     thrust_analysis |-> r.thrust_analysis,
     noise_analysis |-> r.noise_analysis,
     bio_inspired_features |-> r.bio_inspired_features,
     modified_geometry |-> DeepValue(r.h, r.modified_geometry)]

\* ------------------------------------------- multi_objective_optimization
\* weights in hundredths
DefaultWeights ==
    [noise_reduction |-> 60, efficiency |-> 30, manufacturability |-> 10]

\* w / 100 * x and x + y as floats give them, w finite and not negative
FloatScale(w, x) ==
    IF x = NaN THEN NaN
    ELSE IF x \in {Inf, NegInf} THEN (IF w = 0 THEN NaN ELSE x)
    ELSE Div(w * x, 100)
FloatAdd(x, y) ==
    IF x = NaN \/ y = NaN THEN NaN
    ELSE IF x \in {Inf, NegInf}
         THEN (IF y \in {Inf, NegInf} /\ y # x THEN NaN ELSE x)
    ELSE IF y \in {Inf, NegInf} THEN y
    ELSE x + y

Reverse(s) == [i \in 1..Len(s) |-> s[Len(s) + 1 - i]]

\* the key function given to list.sort: total_score for the results of
\* multi_objective_optimization, ntr for those of compare_designs
SortKey(x) == IF "total_score" \in DOMAIN x THEN x.total_score ELSE x.ntr

\* list.sort on the key: the leading run, then binary insertion
KeyLT(x, y) == FloatLT(SortKey(x), SortKey(y))
RECURSIVE RunLength(_, _, _)
RunLength(s, n, descending) ==
    IF n >= Len(s) THEN n
    ELSE IF descending = KeyLT(s[n + 1], s[n])
         THEN RunLength(s, n + 1, descending)
         ELSE n
RECURSIVE BinarySearch(_, _, _, _)
BinarySearch(s, pivot, l, r) ==
    IF l >= r THEN l
    ELSE IF KeyLT(pivot, s[l + (r - l) \div 2])
         THEN BinarySearch(s, pivot, l, l + (r - l) \div 2)
         ELSE BinarySearch(s, pivot, l + (r - l) \div 2 + 1, r)
\* s with the element at position start moved to position l <= start
MoveTo(s, start, l) ==
    SubSeq(s, 1, l - 1) \o <<s[start]>> \o SubSeq(s, l, start - 1)
        \o SubSeq(s, start + 1, Len(s))
RECURSIVE BinarySort(_, _)
BinarySort(s, start) ==
    IF start > Len(s) THEN s
    ELSE BinarySort(MoveTo(s, start, BinarySearch(s, s[start], 1, start)),
                    start + 1)
\* the leading run of length n made ascending
AscendingRun(s, n, descending) ==
    IF descending
    THEN Reverse(SubSeq(s, 1, n)) \o SubSeq(s, n + 1, Len(s))
    ELSE s
SortAscending(s) ==
    IF Len(s) < 2 THEN s
    ELSE Bind(RunLength(s, 2, KeyLT(s[2], s[1])),
              LAMBDA n :
                  BinarySort(AscendingRun(s, n, KeyLT(s[2], s[1])), n + 1))
SortByTotalScoreReverse(s) == Reverse(SortAscending(Reverse(s)))

\* the weighted sum of the three objectives
TotalScore(weights, noise_reduction, efficiency, manufacturability_score) ==
    FloatAdd(FloatAdd(FloatScale(weights["noise_reduction"], noise_reduction),
                      FloatScale(weights["efficiency"], efficiency)),
             FloatScale(weights["manufacturability"],
                        manufacturability_score))

\* the entry of one feature combination
CombinationResult(features, evaluation, weights) ==
    [features |-> features,
     evaluation |-> evaluation,
     noise_reduction_percentage |->
         Get(evaluation.performance_metrics, "noise_reduction_percentage", 0),
     efficiency |-> evaluation.thrust_analysis["efficiency"],
     manufacturability_score |-> (100 - Len(features) * 15) * 100,
     total_score |->
         TotalScore(weights,
                    Get(evaluation.performance_metrics,
                        "noise_reduction_percentage", 0),
                    evaluation.thrust_analysis["efficiency"],
                    (100 - Len(features) * 15) * 100)]

\* the loop over the combinations, trials[i] the evaluation of the i-th; the
\* first failing evaluation ends the call
CombinationLoop(trials, feature_combinations, weights) ==
    IF \E i \in DOMAIN trials : trials[i].err # "none"
    THEN [err |-> trials[CHOOSE i \in DOMAIN trials :
                            /\ trials[i].err # "none"
                            /\ \A j \in 1..(i - 1) :
                                   trials[j].err = "none"].err,
          results |-> <<>>]
    ELSE [err |-> "none",
          results |->
              SortByTotalScoreReverse(
                  [i \in DOMAIN trials |->
                      CombinationResult(feature_combinations[i],
                                        TrialEvaluation(trials[i]),
                                        weights)])]

multi_objective_optimization(h, base_geometry, feature_combinations, operating_conditions, weights) ==
    Bind(evaluate_design(h, base_geometry, operating_conditions, NoBaseline),
         LAMBDA baseline_eval :
             IF baseline_eval.err # "none"
             THEN [err |-> baseline_eval.err, results |-> <<>>]
             ELSE Bind([i \in 1..Len(feature_combinations) |->
                           evaluate_bio_inspired_design(
                               h, base_geometry, feature_combinations[i],
                               operating_conditions,
                               Baseline(baseline_eval.performance_metrics[NTR]))],
                       LAMBDA trials :
                           CombinationLoop(
                               trials, feature_combinations,
                               IF weights.given THEN weights.v
                               ELSE DefaultWeights)))

\* ---------------------------------------------------------- compare_designs
\* design.get('name', f'Design {i+1}')
DefaultNames == <<"Design 1", "Design 2", "Design 3", "Design 4">>

\* the entry appended for the i-th design
ComparisonEntry(h, designs, i, evaluation) ==
    [name |-> Get(h[designs[i]], "name", DefaultNames[i]),
     evaluation |-> evaluation,
     ntr |-> evaluation.performance_metrics.noise_to_thrust_ratio_dB_per_N,
     noise_db |-> evaluation.performance_metrics.total_noise_spl_db,
     thrust_N |-> evaluation.performance_metrics.thrust_N]

\* the loop over the designs; the first failing evaluation ends the call
RECURSIVE ComparisonLoop(_, _, _, _, _)
ComparisonLoop(results, i, h, designs, operating_conditions) ==
    IF i > Len(designs) THEN [err |-> "none", results |-> results]
    ELSE Bind(evaluate_design(h, designs[i], operating_conditions, NoBaseline),
              LAMBDA evaluation :
                  IF evaluation.err # "none"
                  THEN [err |-> evaluation.err, results |-> <<>>]
                  ELSE ComparisonLoop(
                           Append(results,
                                  ComparisonEntry(h, designs, i, evaluation)),
                           i + 1, h, designs, operating_conditions))

\* designs is a list of addresses of the heap h, which is only read;
\* results[0] of an empty list raises IndexError
compare_designs(h, designs, operating_conditions) ==
    Bind(ComparisonLoop(<<>>, 1, h, designs, operating_conditions),
         LAMBDA r :
             IF r.err # "none" THEN [err |-> r.err]
             ELSE IF r.results = <<>> THEN [err |-> "IndexError"]
             ELSE Bind(SortAscending(r.results),
                       LAMBDA results :
                           [designs |-> results,
                            best_design |-> results[1],
                            num_designs |-> Len(designs),
                            err |-> "none"]))

\* the designs a caller compares: its own geometry, a three-bladed one and
\* the sparse geometry of the unit tests, held behind the caller's objects
ThreeBlade ==
    [Standard2Blade EXCEPT !.name = "Three-Blade", !.num_blades = 3]
DesignObjects == <<ThreeBlade, TestGeometry>>
DesignAddrs == {BaseAddr} \cup
    {NumCallerObjects + i : i \in 1..Len(DesignObjects)}
DesignLists == SeqsUpTo(DesignAddrs, MaxDesigns)

CompareDesigns ==
    \E designs \in DesignLists :
        /\ last.op = "idle"
        /\ heap' = CallerHeap \o DesignObjects
        /\ ret' = None
        /\ last' = [op |-> "compare_designs", designs |-> designs,
                    comparison |-> compare_designs(CallerHeap \o DesignObjects,
                                                   designs, conditions)]
        /\ UNCHANGED <<conditions, history, opt, requested>>

NextEvaluator ==
    \/ Discard
    \/ EstimateCombined
    \/ EvaluateDesign
    \/ EvaluateBioInspiredDesign
    \/ CompareDesigns

\* the noise composition and the evaluator, as a caller drives them
SpecEvaluator == InitEvaluator /\ [][NextEvaluator]_vars

\* ------------------------------------------------- calls on the optimizer
TrialBaselineAbsent(o) == NoBaseline

\* the baseline_ntr argument of the evaluation of a trial
TrialBaseline(o) == Baseline(o.baseline_ntr)

\* a trial measured against the design kept so far
TrialCallAgainstBest(o, h, operating_conditions) ==
    evaluate_bio_inspired_design(
        h, BaseAddr, o.features, operating_conditions,
        IF o.best_design.none THEN TrialBaseline(o)
        ELSE Baseline(o.best_design.evaluation.performance_metrics[NTR]))

\* the evaluation of one trial: the call reads the base geometry, the
\* features, the conditions and the baseline NTR of the call, nothing of
\* the history or of the design kept so far
TrialCall(o, h, operating_conditions) ==
    evaluate_bio_inspired_design(h, BaseAddr, o.features,
                                 operating_conditions, TrialBaseline(o))

OptFeatureLists == {<<>>, <<DRAGON, HUMP, OWL>>}
CombinationLists ==
    {<<>>, <<(<<>>), <<HUMP>>, <<OWL, HUMP, DRAGON>>, <<UNKNOWN>>>>}
\* the optional weights: None, or a mapping
NoWeights == [given |-> FALSE, v |-> DefaultWeights]
Weights(v) == [given |-> TRUE, v |-> v]
WeightChoices ==
    {NoWeights,
     Weights([noise_reduction |-> 20, efficiency |-> 70,
              manufacturability |-> 10])}
Seeds == 0..MaxSeed

\* the optimizer is driven on the standard rotor, running and stopped
InitOptimizer ==
    /\ heap = InitHeap(Standard2Blade)
    /\ conditions \in {TypicalConditions, StoppedConditions}
    /\ ret = None
    /\ last = [op |-> "idle"]
    /\ history = <<>>
    /\ opt = OptIdle
    /\ requested = 0

\* optimize_bio_inspired_parameters up to the loop: the baseline evaluation
OptimizeStart ==
    \E features \in OptFeatureLists, objective \in Objectives,
       num_iterations \in 0..MaxIterations :
        /\ last.op = "idle"
        /\ opt.pc = "idle"
        /\ Len(history) + num_iterations <= MaxHistory
        /\ \E baseline_eval \in {evaluate_design(CallerHeap, BaseAddr,
                                                  conditions, NoBaseline)} :
              IF baseline_eval.err # "none"
              THEN /\ opt' = opt
                   /\ requested' = requested
                   /\ last' = [op |-> "optimize_bio_inspired_parameters",
                               err |-> baseline_eval.err]
              ELSE /\ opt' = [pc |-> "loop", objective |-> objective,
                              num_iterations |-> num_iterations,
                              features |-> features, iteration |-> 0,
                              best_design |-> NoDesign,
                              best_score |-> InitialBestScore(objective),
                              baseline_ntr |->
                                  baseline_eval.performance_metrics[NTR],
                              baseline_calls |-> 1,
                              start_len |-> Len(history)]
                   /\ requested' = requested + num_iterations
                   /\ last' = last
        /\ UNCHANGED <<heap, conditions, ret, history>>

\* one iteration of the loop: sample configs, evaluate, compare, record
OptimizeIteration ==
    /\ opt.pc = "loop"
    /\ opt.iteration < opt.num_iterations
    /\ \E seed \in Seeds :
          \E r \in {TrialCall(opt, CallerHeap, conditions)} :
              IF r.err # "none"
              THEN /\ opt' = OptIdle
                   /\ history' = history
                   /\ heap' = CallerHeap
                   /\ last' = [op |-> "optimize_bio_inspired_parameters",
                               err |-> r.err]
              ELSE \E step \in {LoopBody(
                                    opt, history, TrialEvaluation(r),
                                    generate_random_configs(opt.features,
                                                            seed))} :
                       /\ opt' = step.opt
                       /\ history' = step.history
                       /\ heap' = SubSeq(r.h, 1, NumCallerObjects)
                       /\ last' = last
    /\ UNCHANGED <<conditions, ret, requested>>

\* after the loop: the improvement over the baseline and the return
OptimizeReturn ==
    /\ opt.pc = "loop"
    /\ opt.iteration = opt.num_iterations
    /\ \E result \in {OptimizeResult(opt.best_design, opt.baseline_ntr)} :
          last' = [op |-> "optimize_bio_inspired_parameters",
                   err |-> result.err, result |-> result.design,
                   objective |-> opt.objective,
                   features |-> opt.features,
                   num_iterations |-> opt.num_iterations,
                   start_len |-> opt.start_len]
    /\ opt' = OptIdle
    /\ UNCHANGED <<heap, conditions, ret, history, requested>>

MultiObjectiveOptimization ==
    \E feature_combinations \in CombinationLists, weights \in WeightChoices :
        /\ last.op = "idle"
        /\ opt.pc = "idle"
        /\ \E r \in {multi_objective_optimization(
                         CallerHeap, BaseAddr, feature_combinations,
                         conditions, weights)} :
              last' = [op |-> "multi_objective_optimization",
                       feature_combinations |-> feature_combinations,
                       weights |-> weights,
                       err |-> r.err, result |-> r.results,
                       pre |-> [history |-> history]]
        /\ UNCHANGED <<heap, conditions, ret, history, opt, requested>>

get_optimization_history(h) == h

GetOptimizationHistory ==
    /\ last.op = "idle"
    /\ opt.pc = "idle"
    /\ last' = [op |-> "get_optimization_history",
                result |-> get_optimization_history(history)]
    /\ UNCHANGED <<heap, conditions, ret, history, opt, requested>>

clear_history_keep(h) == h

clear_history(h) == <<>>

ClearHistory ==
    /\ last.op = "idle"
    /\ opt.pc = "idle"
    /\ history' = clear_history(history)
    /\ requested' = 0
    /\ last' = [op |-> "clear_history"]
    /\ UNCHANGED <<heap, conditions, ret, opt>>

NextOptimizer ==
    \/ Discard
    \/ OptimizeStart
    \/ OptimizeIteration
    \/ OptimizeReturn
    \/ MultiObjectiveOptimization
    \/ GetOptimizationHistory
    \/ ClearHistory

\* the optimizer, as a caller drives it
SpecOptimizer == InitOptimizer /\ [][NextOptimizer]_vars

\* ---------------------------------------- the trials of a call in any order
\* the iterations of the running call that have appended their entry
DoneTrials ==
    {history[k].iteration : k \in (opt.start_len + 1)..Len(history)}

\* the comparison of a trial that may run after later ones: strictly
\* better, or as good as the kept design and of a smaller iteration
IsBetterAnyOrder(o, iteration, score) ==
    \/ IsBetter(o.objective, score, o.best_score)
    \/ /\ ~o.best_design.none
       /\ score # NaN /\ score = o.best_score
       /\ iteration < o.best_design.iteration

\* the loop body for the trial of the given iteration, o.iteration counting
\* the trials done; the append to the history is one step
AnyOrderBody(o, h, iteration, evaluation, custom_configs) ==
    Bind(TrialScore(o.objective, evaluation),
         LAMBDA score :
             [opt |-> IF IsBetterAnyOrder(o, iteration, score)
                      THEN [o EXCEPT !.iteration = o.iteration + 1,
                                     !.best_score = score,
                                     !.best_design =
                                         [none |-> FALSE,
                                          geometry |->
                                              evaluation.modified_geometry,
                                          evaluation |-> evaluation,
                                          configs |-> custom_configs,
                                          iteration |-> iteration,
                                          score |-> score]]
                      ELSE [o EXCEPT !.iteration = o.iteration + 1],
              history |-> AppendHistory(h,
                              [iteration |-> iteration, score |-> score,
                               ntr |-> evaluation.performance_metrics[NTR]])])

\* any trial of the running call that has not run yet
TrialAnyOrder ==
    /\ opt.pc = "loop"
    /\ \E iteration \in (0..(opt.num_iterations - 1)) \ DoneTrials,
          seed \in Seeds :
          \E r \in {TrialCall(opt, CallerHeap, conditions)} :
              /\ r.err = "none"
              /\ \E step \in {AnyOrderBody(
                                   opt, history, iteration,
                                   TrialEvaluation(r),
                                   generate_random_configs(opt.features,
                                                           seed))} :
                    /\ opt' = step.opt
                    /\ history' = step.history
                    /\ heap' = SubSeq(r.h, 1, NumCallerObjects)
    /\ UNCHANGED <<conditions, ret, last, requested>>

\* the loop of the code from the state o on: the trials in the order of
\* range(num_iterations)
RECURSIVE SequentialLoop(_, _, _, _)
SequentialLoop(o, h, objects, operating_conditions) ==
    IF o.iteration >= o.num_iterations THEN [opt |-> o, history |-> h]
    ELSE Bind(TrialCall(o, objects, operating_conditions),
              LAMBDA r :
                  Bind(LoopBody(o, h, TrialEvaluation(r),
                                generate_random_configs(o.features, 0)),
                       LAMBDA step :
                           SequentialLoop(step.opt, step.history, objects,
                                          operating_conditions)))

NextAnyOrder ==
    \/ Discard
    \/ OptimizeStart
    \/ TrialAnyOrder
    \/ OptimizeReturn

\* optimize calls whose trials run in any order, one at a time
SpecAnyOrder == InitOptimizer /\ [][NextAnyOrder]_vars

\* --------------------------------------- the loop under any trial scores
\* scores an evaluation can hand to the loop: two finite levels and +inf
TrialScores == {300000, 350000, Inf}

InitTrials ==
    /\ heap = InitHeap(Standard2Blade)
    /\ conditions = TypicalConditions
    /\ ret = None
    /\ last = [op |-> "idle"]
    /\ history = <<>>
    /\ opt = OptIdle
    /\ requested = 0

\* one iteration of the loop on an evaluation whose score is any of
\* TrialScores
TrialIteration ==
    /\ opt.pc = "loop"
    /\ opt.iteration < opt.num_iterations
    /\ \E seed \in Seeds, score \in TrialScores :
          \E r \in {TrialCall(opt, CallerHeap, conditions)} :
              /\ r.err = "none"
              /\ \E step \in {LoopBody(
                                   opt, history,
                                   WithScore(TrialEvaluation(r),
                                             opt.objective, score),
                                   generate_random_configs(opt.features,
                                                           seed))} :
                    /\ opt' = step.opt
                    /\ history' = step.history
                    /\ heap' = SubSeq(r.h, 1, NumCallerObjects)
    /\ UNCHANGED <<conditions, ret, last, requested>>

NextTrials ==
    \/ OptimizeStart
    \/ TrialIteration
    \/ OptimizeReturn

\* one optimize call on a new optimizer, for every sequence of trial scores
SpecTrials == InitTrials /\ [][NextTrials]_vars

\* ------------------------------------ calls on the aeroacoustic functions
\* noise levels in 1e-4 dB, thrust in mN, NTR in 1e-4 dB per N
MetricNoiseLevels == {0 - 100000, 0, 800000, 850000, 850100}
MetricThrusts == {0 - 1000, 0, 1, 2500, 5000}
ReferenceThrusts == {1000, 2000}
MetricNtrs == {0 - 100000, 0, 50000, 170000, 170020, 200000, Inf}
NoiseResultChoices ==
    {EmptyDict,
     [total_spl_db |-> 850100],
     [total_spl_db |-> 850000, broadband_spl_db |-> 700000,
      tonal_spl_db |-> 750000, vortex_spl_db |-> 650000]}
ThrustResultChoices ==
    {EmptyDict,
     [thrust_N |-> 0, power_W |-> 0, efficiency |-> 0],
     [thrust_N |-> 5000, power_W |-> 100000, efficiency |-> 6500]}
BaselineChoices ==
    {NoBaseline, Baseline(0 - 100000), Baseline(0), Baseline(200000),
     Baseline(Inf)}

InitAeroacoustics ==
    /\ heap = InitHeap(Standard2Blade)
    /\ conditions = TypicalConditions
    /\ ret = None
    /\ last = [op |-> "idle"]
    /\ history = <<>>
    /\ opt = OptIdle
    /\ requested = 0

CalculateNoiseToThrustRatio ==
    \E noise_spl_db \in MetricNoiseLevels, thrust_N \in MetricThrusts,
       reference_thrust \in ReferenceThrusts :
        /\ last.op = "idle"
        /\ last' = [op |-> "calculate_noise_to_thrust_ratio",
                    noise_spl_db |-> noise_spl_db, thrust_N |-> thrust_N,
                    reference_thrust |-> reference_thrust,
                    result |-> calculate_noise_to_thrust_ratio(
                                   noise_spl_db, thrust_N, reference_thrust)]
        /\ UNCHANGED <<heap, conditions, ret, history, opt, requested>>

CalculateNoiseReductionPercentage ==
    \E baseline_ntr \in MetricNtrs, modified_ntr \in MetricNtrs :
        /\ last.op = "idle"
        /\ last' = [op |-> "calculate_noise_reduction_percentage",
                    baseline_ntr |-> baseline_ntr,
                    modified_ntr |-> modified_ntr,
                    result |-> calculate_noise_reduction_percentage(
                                   baseline_ntr, modified_ntr)]
        /\ UNCHANGED <<heap, conditions, ret, history, opt, requested>>

EvaluateDesignPerformance ==
    \E noise_results \in NoiseResultChoices,
       thrust_results \in ThrustResultChoices,
       baseline_ntr \in BaselineChoices :
        /\ last.op = "idle"
        /\ last' = [op |-> "evaluate_design_performance",
                    noise_results |-> noise_results,
                    thrust_results |-> thrust_results,
                    baseline_ntr |-> baseline_ntr,
                    result |-> evaluate_design_performance(
                                   noise_results, thrust_results,
                                   baseline_ntr)]
        /\ UNCHANGED <<heap, conditions, ret, history, opt, requested>>

\* operating points of a rotor in still or slow air
HoverConditions == [TypicalConditions EXCEPT !.velocity = 0]
StillConditions == [TypicalConditions EXCEPT !.rpm = 0, !.velocity = 0]
SlowConditions == [TypicalConditions EXCEPT !.rpm = 0, !.velocity = 100]
NoiseConditions ==
    ConditionSets \cup {HoverConditions, StillConditions, SlowConditions}

CalculateTotalNoise ==
    \E propeller_params \in BaseGeometries,
       operating_conditions \in NoiseConditions :
        /\ last.op = "idle"
        /\ last' = [op |-> "calculate_total_noise",
                    propeller_params |-> propeller_params,
                    operating_conditions |-> operating_conditions,
                    result |-> calculate_total_noise(propeller_params,
                                                     operating_conditions)]
        /\ UNCHANGED <<heap, conditions, ret, history, opt, requested>>

\* spectra as (key, spl) items in insertion order
Item(key, spl) == [key |-> key, spl |-> spl]
Spectrum(broadband, tonal, vortex) ==
    <<Item("broadband_spl_db", broadband), Item("tonal_spl_db", tonal),
      Item("frequency_hz_1", 1666), Item("vortex_spl_db", vortex)>>
SpectrumChoices ==
    {<<>>, <<Item("frequency_hz_1", 1666)>>,
     <<Item("tonal_spl_db", 750000)>>}
        \cup {Spectrum(b, t, v) : b \in {0, 700000}, t \in {0, 750000},
                                  v \in {0 - 140000, 0, 700000}}
NoFrequencyWeights == [given |-> FALSE, v |-> [tonal_spl_db |-> 1000]]
FrequencyWeights(tonal) == [given |-> TRUE, v |-> [tonal_spl_db |-> tonal]]
WeightChoicesMetric ==
    {NoFrequencyWeights, FrequencyWeights(1000), FrequencyWeights(500),
     FrequencyWeights(0)}

CalculateWeightedNoiseMetric ==
    \E noise_spectrum \in SpectrumChoices,
       frequency_weights \in WeightChoicesMetric :
        /\ last.op = "idle"
        /\ last' = [op |-> "calculate_weighted_noise_metric",
                    noise_spectrum |-> noise_spectrum,
                    frequency_weights |-> frequency_weights,
                    result |-> calculate_weighted_noise_metric(
                                   noise_spectrum, frequency_weights)]
        /\ UNCHANGED <<heap, conditions, ret, history, opt, requested>>

\* blade geometries: the standard blade, the defaults of the method, and a
\* blade of low pitch whose ideal power stays below the power it absorbs
ShallowBlade == [radius |-> 127000, chord_root |-> 35000, chord_tip |-> 15000,
                 pitch_angle |-> 100, cl_slope |-> 628318]
BladeChoices == {Standard2Blade, EmptyDict, ShallowBlade}
BladeRpms == {0 - 3000, 0, 3000, 5000}

CalculateThrustBladeElement ==
    \E rpm \in BladeRpms, blade_params \in BladeChoices,
       num_blades \in {2, 3} :
        /\ last.op = "idle"
        /\ last' = [op |-> "calculate_thrust_blade_element",
                    rpm |-> rpm,
                    blade_params |-> blade_params,
                    num_blades |-> num_blades,
                    result |-> calculate_thrust_blade_element(
                                   rpm, blade_params, num_blades)]
        /\ UNCHANGED <<heap, conditions, ret, history, opt, requested>>

MeritThrusts == {0 - 5000, 0, 5000, 10000}
MeritPowers == {0 - 100000, 0, 10000, 100000}
MeritRadii == {0, 127000}

CalculateFigureOfMerit ==
    \E thrust \in MeritThrusts, power \in MeritPowers, radius \in MeritRadii :
        /\ last.op = "idle"
        /\ last' = [op |-> "calculate_figure_of_merit",
                    thrust |-> thrust,
                    power |-> power,
                    radius |-> radius,
                    result |-> calculate_figure_of_merit(thrust, power,
                                                         radius)]
        /\ UNCHANGED <<heap, conditions, ret, history, opt, requested>>

NextAeroacoustics ==
    \/ Discard
    \/ CalculateNoiseToThrustRatio
    \/ CalculateNoiseReductionPercentage
    \/ EvaluateDesignPerformance
    \/ CalculateTotalNoise
    \/ CalculateWeightedNoiseMetric
    \/ CalculateThrustBladeElement
    \/ CalculateFigureOfMerit

\* the noise, thrust and metrics functions, called on their own
SpecAeroacoustics == InitAeroacoustics /\ [][NextAeroacoustics]_vars

\* ------------------------------------ calls on the bio-inspired functions
\* chords and spans in micrometres, ratios in thousandths; a count is None
\* when the caller leaves it out
GeometryLengths == {25000, 50000, 127000}
GeometryRatios == {10, 20, 50, 120, 200, 250, 500, 1000}
GeometryCounts == {None, 5}

InitFeatures == InitAeroacoustics

CalculateSerrationGeometry ==
    \E chord_length \in GeometryLengths,
       serration_wavelength_ratio \in GeometryRatios,
       num_serrations \in GeometryCounts :
        /\ last.op = "idle"
        /\ last' = [op |-> "calculate_serration_geometry",
                    length |-> chord_length,
                    wavelength_ratio |-> serration_wavelength_ratio,
                    count_given |-> num_serrations,
                    result |-> calculate_serration_geometry(
                                   chord_length, 50,
                                   serration_wavelength_ratio,
                                   num_serrations),
                    count_key |-> "num_serrations"]
        /\ UNCHANGED <<heap, conditions, ret, history, opt, requested>>

CalculateTubercleGeometry ==
    \E blade_span \in GeometryLengths, wavelength_ratio \in GeometryRatios,
       num_tubercles \in GeometryCounts :
        /\ last.op = "idle"
        /\ last' = [op |-> "calculate_tubercle_geometry",
                    length |-> blade_span,
                    wavelength_ratio |-> wavelength_ratio,
                    count_given |-> num_tubercles,
                    result |-> calculate_tubercle_geometry(
                                   blade_span, 120, wavelength_ratio,
                                   num_tubercles),
                    count_key |-> "num_tubercles"]
        /\ UNCHANGED <<heap, conditions, ret, history, opt, requested>>

CalculateCorrugationGeometry ==
    \E chord_length \in GeometryLengths,
       corrugation_wavelength_ratio \in GeometryRatios,
       num_corrugations \in GeometryCounts :
        /\ last.op = "idle"
        /\ last' = [op |-> "calculate_corrugation_geometry",
                    length |-> chord_length,
                    wavelength_ratio |-> corrugation_wavelength_ratio,
                    count_given |-> num_corrugations,
                    result |-> calculate_corrugation_geometry(
                                   chord_length, 30,
                                   corrugation_wavelength_ratio,
                                   num_corrugations),
                    count_key |-> "num_corrugations"]
        /\ UNCHANGED <<heap, conditions, ret, history, opt, requested>>

\* the conditions and constraints a caller asks a recommendation for
RecommendConditions ==
    {EmptyDict} \cup
    {[reynolds_number |-> re, angle_of_attack |-> aoa,
      noise_reduction_target |-> target] :
        re \in {200000, 400000}, aoa \in {500, 800}, target \in {1000, 1500}}
NoConstraints == [given |-> FALSE, v |-> EmptyDict]
Constraints(v) == [given |-> TRUE, v |-> v]
ConstraintChoices ==
    {NoConstraints, Constraints(EmptyDict)} \cup
    {Constraints([manufacturing_complexity |-> m]) :
        m \in {"low", "medium", "high"}} \cup
    {Constraints([manufacturing_complexity |-> m, require_stiffness |-> b]) :
        m \in {"low", "medium", "high"}, b \in BOOLEAN}

RecommendFeatures ==
    \E operating_conditions \in RecommendConditions,
       constraints \in ConstraintChoices :
        /\ last.op = "idle"
        /\ last' = [op |-> "recommend_features",
                    operating_conditions |-> operating_conditions,
                    constraints |-> constraints,
                    result |-> recommend_features(operating_conditions,
                                                  constraints)]
        /\ UNCHANGED <<heap, conditions, ret, history, opt, requested>>

NextFeatures ==
    \/ Discard
    \/ CalculateSerrationGeometry
    \/ CalculateTubercleGeometry
    \/ CalculateCorrugationGeometry
    \/ RecommendFeatures

\* the geometry derivations and the recommendation, called on their own
SpecFeatures == InitFeatures /\ [][NextFeatures]_vars

\* ================================================================= claims
IsRecognised(f) == f \in FeatureNames
Recognised(features) == SelectSeq(features, IsRecognised)
Distinct(features) ==
    \A i, j \in 1..Len(features) : i # j => features[i] # features[j]
FixedOrder == <<OWL, HUMP, DRAGON>>
InFixedOrder(features) ==
    LET named(f) == InList(f, features) IN SelectSeq(FixedOrder, named)

RECURSIVE SumOver(_, _)
SumOver(f, S) ==
    IF S = {} THEN 0
    ELSE LET x == CHOOSE y \in S : TRUE IN f[x] + SumOver(f, S \ {x})

AfterEvaluateBio ==
    /\ last.op = "evaluate_bio_inspired_design"
    /\ last.evaluation.err = "none"
AfterEstimate == last.op = "estimate_combined_noise_reduction"

\* C1: after evaluate_bio_inspired_design with a non-empty feature list the
\* noise total is the final_noise_db that estimate_combined_noise_reduction
\* gives for the first-pass total of the composed geometry, the performance
\* metrics are those of that overwritten total (same total, NTR = total /
\* thrust, +inf for thrust <= 0), and the thrust result is the first-pass one
C1_OverwriteAndRecompute ==
    (AfterEvaluateBio /\ last.features # <<>>) =>
        LET ev == last.evaluation
            first_pass == evaluate_design(heap, ret, conditions,
                                          last.baseline_ntr)
            composed == estimate_combined_noise_reduction(
                            first_pass.noise_analysis["total_spl_db"],
                            last.features,
                            ExtractFeatureParams(heap, ret, last.features),
                            conditions)
            thrust == first_pass.thrust_analysis["thrust_N"]
        IN  /\ ev.noise_analysis["total_spl_db"] = composed.final_noise_db
            /\ ev.performance_metrics["total_noise_spl_db"]
                   = composed.final_noise_db
            /\ ev.performance_metrics["noise_to_thrust_ratio_dB_per_N"]
                   = IF thrust <= 0 THEN Inf
                     ELSE Div(composed.final_noise_db * 1000, thrust)
            /\ ev.thrust_analysis = first_pass.thrust_analysis

\* C1 witness: three features were composed on a thrusting rotor and the
\* stored total is below the first-pass total
C1_Witness ==
    /\ AfterEvaluateBio
    /\ Len(last.features) = 3 /\ NamedIn(last.features) = FeatureNames
    /\ last.evaluation.thrust_analysis["thrust_N"] > 0
    /\ last.evaluation.noise_analysis["total_spl_db"]
         < calculate_total_noise(heap[ret], conditions).total_spl_db

\* C2: the i-th estimate_noise_reduction call is for the i-th recognised
\* name of the list and gets the original baseline minus the reductions of
\* the calls before it, which for i > 1 is not the original baseline
C2_SequentialBaseline ==
    AfterEstimate =>
        LET r == last.result
            rec == Recognised(last.features)
            reduction(j) ==
                estimate_noise_reduction(
                    r.calls[j].feature, r.calls[j].baseline,
                    last.feature_params, conditions).noise_reduction_db
            before(i) == [j \in 1..(i - 1) |-> reduction(j)]
        IN  /\ Len(r.calls) <= Len(rec)
            /\ (r.err = "none" /\ last.baseline_noise_db # 0)
                   => Len(r.calls) = Len(rec)
            /\ \A i \in 1..Len(r.calls) :
                  /\ r.calls[i].feature = rec[i]
                  /\ r.calls[i].baseline
                       = last.baseline_noise_db
                         - SumOver(before(i), 1..(i - 1))
                  /\ i > 1 => r.calls[i].baseline # last.baseline_noise_db

\* C2 witness: three estimates were made, each on a lower level
C2_Witness ==
    /\ AfterEstimate
    /\ last.result.err = "none"
    /\ Len(last.result.calls) = 3
    /\ last.result.calls[3].baseline < last.result.calls[2].baseline
    /\ last.result.calls[2].baseline < last.result.calls[1].baseline

\* C3: for k distinct recognised features the reported interaction_factor
\* is 1 + 0.18 (k - 1) (1.0 for k <= 1, 1.36 for k = 3), the reported total
\* reduction is that factor times the sum of the per-feature reductions and
\* final_noise_db is the baseline minus the total
C3_SynergyMultiplier ==
    (/\ AfterEstimate
     /\ last.result.err = "none"
     /\ Distinct(last.features)
     /\ \A i \in 1..Len(last.features) : last.features[i] \in FeatureNames)
    =>
        LET r == last.result
            k == Len(last.features)
            sum == SumOver(r.individual_reductions,
                           DOMAIN r.individual_reductions)
        IN  /\ r.interaction_factor = IF k <= 1 THEN 100 ELSE 100 + 18 * (k - 1)
            /\ k = 3 => r.interaction_factor = 136
            /\ DOMAIN r.individual_reductions = NamedIn(last.features)
            /\ r.total_reduction_db * 100 = r.interaction_factor * sum
            /\ r.final_noise_db = last.baseline_noise_db - r.total_reduction_db

\* C3 witness: three distinct features were combined with a positive total
C3_Witness ==
    /\ AfterEstimate
    /\ last.result.err = "none"
    /\ Distinct(last.features) /\ NamedIn(last.features) = FeatureNames
    /\ Len(last.features) = 3
    /\ last.result.total_reduction_db > 0

AfterCreate == last.op = "create_design" /\ last.err = "none"
AfterApply == last.op = "apply_to_blade_design" /\ last.err = "none"

FeatureKey(f) == CASE f = OWL -> "trailing_edge_serrations"
                   [] f = HUMP -> "leading_edge_tubercles"
                   [] OTHER -> "surface_corrugations"

\* C4: create_design applies the named features in the order serration,
\* tubercle, corrugation whatever the order and repetitions of the list,
\* skips the others, and records exactly the named recognised features
\* once each in that order
C4_FixedApplicationOrder ==
    AfterCreate =>
        /\ last.applied = InFixedOrder(last.features)
        /\ heap[heap[ret]["bio_inspired_features"]]
             = InFixedOrder(last.features)
        /\ Len(heap[heap[ret]["bio_inspired_features"]])
             = Cardinality(NamedIn(last.features))
        /\ \A f \in FeatureNames :
              (FeatureKey(f) \in DOMAIN heap[ret]) <=> InList(f, last.features)

\* C4 witness: a list in another order, with an unrecognised name
C4_Witness ==
    /\ AfterCreate
    /\ last.features = <<DRAGON, UNKNOWN, OWL>>
    /\ last.applied = <<OWL, DRAGON>>

\* C5: after apply_to_blade_design (any variant, with or without a config)
\* and after create_design the caller's geometry record has, field by
\* field, the values it had before the call, and the result is another
\* record
C5_CallerGeometryUnchanged ==
    (AfterCreate \/ AfterApply) =>
        /\ DeepValue(heap, BaseAddr) = last.pre.geometry
        /\ heap[BaseAddr] = last.pre.objects[BaseAddr]
        /\ ret # BaseAddr

\* C5 witness: a feature was applied with a caller config and the returned
\* record differs from the caller's
C5_Witness ==
    /\ AfterApply
    /\ last.config # None
    /\ heap[ret]["drag_coefficient"]
         # Get(heap[BaseAddr], "drag_coefficient", 2000)

\* C6: a later change to a nested value of the returned record is not
\* observable through the caller's geometry record or configs, and a change
\* made through the caller's record is not observable in the returned one
C6_NoSharedMutablePart ==
    last.op = "mutate" =>
        /\ last.root = ret =>
              /\ DeepValue(heap, BaseAddr) = last.pre.base
              /\ CallerHeap = last.pre.objects
        /\ last.root = BaseAddr => DeepValue(heap, ret) = last.pre.returned

AfterOptimize ==
    /\ last.op = "optimize_bio_inspired_parameters"
    /\ last.err = "none"

\* C7: an optimize call with num_iterations = k on an empty history leaves
\* exactly k entries, entry i carrying iteration index i (from 0), for every
\* k >= 0 and every objective; while the call runs the entries so far are
\* the indices 0 .. iteration - 1
C7_HistoryOfOneCall ==
    /\ (AfterOptimize /\ last.start_len = 0) =>
          /\ Len(history) = last.num_iterations
          /\ \A i \in 1..Len(history) : history[i].iteration = i - 1
    /\ (opt.pc = "loop" /\ opt.start_len = 0) =>
          /\ Len(history) = opt.iteration
          /\ \A i \in 1..Len(history) : history[i].iteration = i - 1

\* C7 witness: a call with k = 3 returned on a new optimizer
C7_Witness ==
    /\ AfterOptimize
    /\ last.start_len = 0
    /\ last.num_iterations = 3
    /\ last.objective = "maximize_efficiency"
    /\ Len(history) = 3
    /\ history[3].iteration = 2

\* what is left to append by the call in progress
Outstanding ==
    IF opt.pc = "loop" THEN opt.num_iterations - opt.iteration ELSE 0

\* C8: the history only grows at its end until clear_history, its length is
\* the sum of num_iterations of the optimize calls since the last clear,
\* multi_objective_optimization leaves it as it was and clear_history
\* leaves it empty
C8_HistoryAppendOnly ==
    /\ [](/\ Len(history) = requested - Outstanding
          /\ last.op = "multi_objective_optimization"
                => history = last.pre.history
          /\ last.op = "clear_history" => history = <<>>)
    /\ [][\/ /\ Len(history') >= Len(history)
             /\ SubSeq(history', 1, Len(history)) = history
          \/ /\ last'.op = "clear_history"
             /\ history' = <<>>]_vars

\* C8 witness: two optimize calls have added to the history
C8_Witness ==
    /\ AfterOptimize
    /\ last.start_len = 1
    /\ last.num_iterations = 2
    /\ Len(history) = 3
    /\ requested = 3

\* C9: under minimize_ntr the best score so far never increases from one
\* iteration to the next, for every sequence of trial scores
C9_BestScoreNonIncreasing ==
    [][(/\ opt.pc = "loop"
        /\ opt'.pc = "loop"
        /\ opt.objective = "minimize_ntr")
       => opt'.best_score <= opt.best_score]_vars

\* the scores of the trials of the call in progress or just returned
ScoresFrom(start_len, n) == [i \in 0..(n - 1) |-> history[start_len + i + 1].score]

\* C9 witness: the best score came down and then met a worse trial
C9_Witness ==
    /\ opt.pc = "loop"
    /\ opt.objective = "minimize_ntr"
    /\ opt.iteration = 3
    /\ ScoresFrom(opt.start_len, 3) = [i \in 0..2 |-> IF i = 1 THEN 300000 ELSE 350000]
    /\ opt.best_score = 300000

StrictlyBetter(objective, a, b) ==
    IF objective = "minimize_ntr" THEN a < b ELSE a > b

\* the design kept after the scores sc is the first trial no other trial
\* strictly betters, or none when no trial strictly betters the sentinel
KeepsFirstBest(objective, sc, design, best_score) ==
    LET improving == {i \in DOMAIN sc :
                         StrictlyBetter(objective, sc[i],
                                        InitialBestScore(objective))}
    IN  IF improving = {}
        THEN design.none /\ best_score = InitialBestScore(objective)
        ELSE /\ ~design.none
             /\ design.iteration \in DOMAIN sc
             /\ design.score = sc[design.iteration]
             /\ best_score = design.score
             /\ \A j \in DOMAIN sc :
                   /\ ~StrictlyBetter(objective, sc[j], design.score)
                   /\ sc[j] = design.score => design.iteration <= j

\* C10: the best design is replaced only by a strictly better trial, so an
\* equal score keeps the earlier one, and the returned iteration index is
\* the smallest one that attains the best score
C10_TiesKeepEarlier ==
    /\ opt.pc = "loop" =>
          KeepsFirstBest(opt.objective,
                         ScoresFrom(opt.start_len, opt.iteration),
                         opt.best_design, opt.best_score)
    /\ AfterOptimize =>
          KeepsFirstBest(last.objective,
                         ScoresFrom(last.start_len, last.num_iterations),
                         last.result,
                         IF last.result.none
                         THEN InitialBestScore(last.objective)
                         ELSE last.result.score)

\* C10 witness: a call returned the first of two trials with the best score
C10_Witness ==
    /\ AfterOptimize
    /\ last.objective = "minimize_ntr"
    /\ last.num_iterations = 3
    /\ ScoresFrom(last.start_len, 3) = [i \in 0..2 |-> IF i = 0 THEN 350000 ELSE 300000]
    /\ ~last.result.none
    /\ last.result.iteration = 1

\* C11: an optimize call with num_iterations >= 1 returns a best design,
\* not an absent value, whose score is the most favourable of the scores the
\* call appended to the history, with its evaluation and improvement
C11_ResultIsBestDesign ==
    (AfterOptimize /\ last.num_iterations >= 1) =>
        /\ ~last.result.none
        /\ \E i \in 0..(last.num_iterations - 1) :
               ScoresFrom(last.start_len, last.num_iterations)[i]
                   = last.result.score
        /\ \A i \in 0..(last.num_iterations - 1) :
               ~StrictlyBetter(
                    last.objective,
                    ScoresFrom(last.start_len, last.num_iterations)[i],
                    last.result.score)
        /\ "performance_metrics" \in DOMAIN last.result.evaluation
        /\ "improvement_over_baseline_percentage" \in DOMAIN last.result

\* the geometry of a kept design carries, for every selected feature, the
\* parameters of the configs kept with it
DescribesGeometry(design, features) ==
    \A f \in NamedIn(features) :
        /\ f \in DOMAIN design.configs
        /\ FeatureKey(f) \in DOMAIN design.geometry
        /\ design.geometry[FeatureKey(f)] = design.configs[f]

\* C12: the parameters sampled in an iteration are the ones evaluated: the
\* geometry kept with a best design carries, for each selected feature, the
\* parameters of the configs kept with it, during the loop and at the return
C12_SampledConfigsEvaluated ==
    /\ (opt.pc = "loop" /\ ~opt.best_design.none) =>
           DescribesGeometry(opt.best_design, opt.features)
    /\ (AfterOptimize /\ ~last.result.none) =>
           DescribesGeometry(last.result, last.features)

\* C13: within one optimize call the base geometry is evaluated once, before
\* the first trial; the baseline_ntr found there is the NTR of the unmodified
\* geometry, it is what every trial evaluation receives (its reduction
\* percentage is measured against it) and what the improvement of the result
\* is measured against, and no iteration evaluates it again or changes it
C13_BaselineOnce ==
    /\ [](/\ opt.pc = "loop" =>
                /\ opt.baseline_calls = 1
                /\ opt.baseline_ntr =
                       evaluate_design(CallerHeap, BaseAddr, conditions,
                                       NoBaseline).performance_metrics[NTR]
                /\ opt.iteration = 0 => Len(history) = opt.start_len
                /\ opt.objective = "maximize_noise_reduction" =>
                       \A i \in (opt.start_len + 1)..Len(history) :
                           history[i].score =
                               calculate_noise_reduction_percentage(
                                   opt.baseline_ntr, history[i].ntr)
                /\ ~opt.best_design.none =>
                       Get(opt.best_design.evaluation.performance_metrics,
                           "noise_reduction_percentage", None) =
                           calculate_noise_reduction_percentage(
                               opt.baseline_ntr,
                               opt.best_design.evaluation
                                   .performance_metrics[NTR])
          /\ (AfterOptimize /\ ~last.result.none) =>
                /\ last.result.baseline_ntr =
                       evaluate_design(CallerHeap, BaseAddr, conditions,
                                       NoBaseline).performance_metrics[NTR]
                /\ last.result.improvement_over_baseline_percentage =
                       ImprovementPercentage(
                           last.result.baseline_ntr,
                           last.result.evaluation
                               .performance_metrics[NTR]).v)
    /\ [][(opt.pc = "loop" /\ opt'.pc = "loop") =>
              /\ opt'.baseline_ntr = opt.baseline_ntr
              /\ opt'.baseline_calls = opt.baseline_calls]_vars

\* C13 witness: the third trial of a call has been evaluated against the
\* baseline found before the first, at a finite baseline NTR
C13_Witness ==
    /\ opt.pc = "loop"
    /\ opt.iteration = 3
    /\ opt.objective = "maximize_noise_reduction"
    /\ opt.features # <<>>
    /\ opt.baseline_calls = 1
    /\ opt.baseline_ntr < Inf
    /\ history[opt.start_len + 3].score > 0

\* C14: calculate_noise_to_thrust_ratio returns +inf for every noise level
\* when thrust <= 0 and otherwise the quotient noise / (thrust / reference),
\* here to the last fixed-point digit; ntr(80 dB, 5 N) = 16
C14_NtrSentinel ==
    last.op = "calculate_noise_to_thrust_ratio" =>
        /\ last.thrust_N <= 0 => last.result = Inf
        /\ last.thrust_N > 0 =>
               /\ last.result # Inf
               /\ Abs(last.result * last.thrust_N
                        - last.noise_spl_db * last.reference_thrust)
                      < last.thrust_N
        /\ (/\ last.noise_spl_db = 800000
            /\ last.thrust_N = 5000
            /\ last.reference_thrust = 1000) => last.result = 160000

\* C14 witness: the sentinel has been returned for 80 dB at zero thrust
C14_Witness ==
    /\ last.op = "calculate_noise_to_thrust_ratio"
    /\ last.noise_spl_db = 800000
    /\ last.thrust_N = 0
    /\ last.result = Inf

\* C15: evaluate_design_performance reports noise_reduction_percentage and
\* meets_15_percent_target exactly when a baseline NTR is supplied; the
\* percentage is then (baseline - ntr) / baseline * 100, 0 for a baseline
\* <= 0, and the flag is true exactly from 15 percent on; reduction_pct(20,
\* 17) = 15 and reduction_pct(0, 5) = 0
C15_ReductionAndTarget ==
    /\ last.op = "evaluate_design_performance" =>
          /\ HasKey(last.result, "noise_reduction_percentage")
                 <=> last.baseline_ntr.given
          /\ HasKey(last.result, "meets_15_percent_target")
                 <=> last.baseline_ntr.given
          /\ last.baseline_ntr.given =>
                 /\ last.baseline_ntr.v <= 0 =>
                        last.result["noise_reduction_percentage"] = 0
                 /\ (/\ last.baseline_ntr.v > 0
                     /\ last.baseline_ntr.v < Inf
                     /\ last.result[NTR] < Inf) =>
                        Abs(last.result["noise_reduction_percentage"]
                                * last.baseline_ntr.v
                            - (last.baseline_ntr.v - last.result[NTR]) * 10000)
                          < 10 * last.baseline_ntr.v
                 /\ last.result["meets_15_percent_target"] =
                        FloatGE(last.result["noise_reduction_percentage"],
                                1500)
    /\ last.op = "calculate_noise_reduction_percentage" =>
          /\ (last.baseline_ntr = 200000 /\ last.modified_ntr = 170000)
                 => last.result = 1500
          /\ (last.baseline_ntr = 0 /\ last.modified_ntr = 50000)
                 => last.result = 0
          /\ last.baseline_ntr <= 0 => last.result = 0

\* C15 witness: a design at exactly 15 percent below a baseline NTR of 20
\* has been evaluated and meets the target
C15_Witness ==
    /\ last.op = "evaluate_design_performance"
    /\ last.baseline_ntr = Baseline(200000)
    /\ last.result[NTR] = 170000
    /\ last.result["noise_reduction_percentage"] = 1500
    /\ last.result["meets_15_percent_target"]

\* the evaluation of the caller's geometry as it stands
BaseEvaluation(baseline_ntr) ==
    evaluate_design(CallerHeap, BaseAddr, conditions, baseline_ntr)

\* C16: evaluate_bio_inspired_design with an empty feature list or a list
\* of unrecognised names only raises nothing and applies no reduction: the
\* total SPL, the thrust and the NTR are those evaluate_design gives for the
\* base geometry under the same conditions
C16_NoFeaturesNoReduction ==
    (/\ last.op = "evaluate_bio_inspired_design"
     /\ NamedIn(last.features) = {}) =>
        /\ last.evaluation.err = "none"
        /\ BaseEvaluation(last.baseline_ntr).err = "none"
        /\ last.evaluation.noise_analysis["total_spl_db"] =
               BaseEvaluation(last.baseline_ntr).noise_analysis["total_spl_db"]
        /\ last.evaluation.thrust_analysis["thrust_N"] =
               BaseEvaluation(last.baseline_ntr).thrust_analysis["thrust_N"]
        /\ last.evaluation.performance_metrics =
               BaseEvaluation(last.baseline_ntr).performance_metrics
        /\ last.evaluation.performance_metrics["total_noise_spl_db"] =
               last.evaluation.noise_analysis["total_spl_db"]

\* C16 witness: a list of two unrecognised names has been evaluated on the
\* running standard rotor
C16_Witness ==
    /\ last.op = "evaluate_bio_inspired_design"
    /\ last.features = <<UNKNOWN, UNKNOWN>>
    /\ last.evaluation.err = "none"
    /\ conditions = TypicalConditions
    /\ last.evaluation.thrust_analysis["thrust_N"] > 0
    /\ last.evaluation.noise_analysis["total_spl_db"] > 0

\* C17: a missing mapping key never ends a call with a missing-key fault:
\* estimate_combined_noise_reduction with a recognised name whose entry is
\* absent from feature_params, or whose record lacks a field, falls back to
\* defaults and returns a result
C17_MissingKeysFallBack ==
    AfterEstimate => last.result.err # "KeyError"

\* C18: for the standard 2-blade geometry at 5000 rpm and 10 m/s the
\* evaluation has a finite positive thrust and total SPL, and the evaluation
\* with all three features, parameters derived by default, has a total SPL
\* strictly below that of the unmodified geometry under the same conditions
C18_AllFeaturesQuieter ==
    (/\ last.op = "evaluate_bio_inspired_design"
     /\ DeepValue(heap, BaseAddr) = DeepValue(InitHeap(Standard2Blade), BaseAddr)
     /\ conditions = TypicalConditions
     /\ NamedIn(last.features) = FeatureNames) =>
        /\ BaseEvaluation(NoBaseline).err = "none"
        /\ BaseEvaluation(NoBaseline).thrust_analysis["thrust_N"] > 0
        /\ BaseEvaluation(NoBaseline).thrust_analysis["thrust_N"] < Inf
        /\ BaseEvaluation(NoBaseline).noise_analysis["total_spl_db"] > 0
        /\ BaseEvaluation(NoBaseline).noise_analysis["total_spl_db"] < Inf
        /\ last.evaluation.err = "none"
        /\ last.evaluation.noise_analysis["total_spl_db"] <
               BaseEvaluation(NoBaseline).noise_analysis["total_spl_db"]

\* C18 witness: the standard rotor has been evaluated with the three
\* features at the typical operating point
C18_Witness ==
    /\ last.op = "evaluate_bio_inspired_design"
    /\ DeepValue(heap, BaseAddr) = DeepValue(InitHeap(Standard2Blade), BaseAddr)
    /\ conditions = TypicalConditions
    /\ last.features = <<OWL, HUMP, DRAGON>>
    /\ last.evaluation.err = "none"
    /\ last.evaluation.noise_analysis["noise_reduction_db"] > 0

\* ------------------------------------------------------------------- C19
AfterTotalNoise ==
    last.op = "calculate_total_noise" /\ last.result.err = "none"

AfterUnitWeightedMetric ==
    /\ last.op = "calculate_weighted_noise_metric"
    /\ last.frequency_weights.given
           => last.frequency_weights.v.tonal_spl_db = 1000

\* the levels of a spectrum, its frequency entries left out
SpectrumLevels(noise_spectrum) ==
    SelectSeq(noise_spectrum, LAMBDA item : item.key \notin FrequencyKeys)

ComponentItems(result) ==
    <<Item("broadband_spl_db", result.broadband_spl_db),
      Item("tonal_spl_db", result.tonal_spl_db),
      Item("vortex_spl_db", result.vortex_spl_db)>>

LoudestLevel(items) ==
    CHOOSE x \in {items[i].spl : i \in 1..Len(items)} :
        \A i \in 1..Len(items) : x >= items[i].spl

RECURSIVE DecibelValuesSum(_)
DecibelValuesSum(items) ==
    IF items = <<>> THEN 0
    ELSE Head(items).spl + DecibelValuesSum(Tail(items))

\* 10*log10(n) in 1e-4 dB for n sources, with the error of the gain table
\* (at most 72 for each pair of levels) added
SourceGain(n) == CASE n = 1 -> 0 [] n = 2 -> 30103 + 72 [] OTHER -> 47712 + 144

\* the combined level of the items is at least the loudest level and below
\* the arithmetic sum of the decibel values
BelowDecibelSum(level, items) ==
    /\ level >= LoudestLevel(items)
    /\ level < DecibelValuesSum(items)

\* the combined level of n items lies between the loudest level and
\* 10*log10(n) above it, which puts it below the arithmetic sum of the
\* decibel values when the other levels add to more than that
PressureDomain(level, items) ==
    /\ level >= LoudestLevel(items)
    /\ level <= LoudestLevel(items) + SourceGain(Len(items))
    /\ DecibelValuesSum(items) - LoudestLevel(items) > SourceGain(Len(items))
           => level < DecibelValuesSum(items)

InUnitInterval(x) == x # NaN /\ 0 <= x /\ x <= 10000

\* C20: the efficiency returned by calculate_thrust_blade_element and the
\* value returned by calculate_figure_of_merit lie in [0, 1] for positive
\* inputs, and both are 0 when the power is not positive.
C20_EfficiencyBound ==
    /\ last.op = "calculate_thrust_blade_element"
           => /\ last.rpm > 0 => InUnitInterval(last.result.efficiency)
              /\ last.result.power_W <= 0 => last.result.efficiency = 0
    /\ last.op = "calculate_figure_of_merit"
           => /\ last.thrust > 0 /\ last.power > 0 /\ last.radius > 0
                     => /\ last.result.err = "none"
                        /\ InUnitInterval(last.result.value)
              /\ last.power <= 0
                     => last.result = [err |-> "none", value |-> 0]

\* 5 N from 10 W on a 0.127 m disk: the ideal power is above the power
\* given and the value is 1.0
C20_Witness ==
    /\ last.op = "calculate_figure_of_merit"
    /\ last.thrust = 5000 /\ last.power = 10000 /\ last.radius = 127000
    /\ last.result.value = 10000

\* ------------------------------------------------------------------- C21
AfterGeometry ==
    /\ last.op \in {"calculate_serration_geometry",
                    "calculate_tubercle_geometry",
                    "calculate_corrugation_geometry"}
    /\ last.result.err = "none"

\* C21: when the count argument is not supplied, each of the three geometry
\* derivations returns a count of at least 3, for every positive chord or
\* span and every positive wavelength ratio.
C21_CountAtLeastThree ==
    AfterGeometry /\ last.count_given = None
        => last.result.d[last.count_key] >= 3

\* ------------------------------------------------------------------- C22
VariantNames ==
    <<"Baseline", "Owl Serrations", "Humpback Tubercles",
      "Dragonfly Corrugations", "Combined Bio-Inspired">>

\* bio_inspired_features of a geometry, empty when the key is absent
AppliedFeatures(h, g) ==
    IF HasKey(h[g], "bio_inspired_features")
    THEN h[h[g]["bio_inspired_features"]] ELSE <<>>

AfterVariants ==
    /\ last.op = "generate_design_variants"
    /\ last.err = "none"
    /\ last.num_variants >= 0

\* C22: for every count >= 0 generate_design_variants returns the first
\* min(count, 5) entries of the fixed sequence of variants, exactly count
\* entries when count <= 5; the first is the unmodified baseline and each
\* entry's feature list is the applied-feature list of its geometry.
C22_VariantsPrefix ==
    AfterVariants
        => /\ [i \in 1..Len(last.variants) |-> last.variants[i].name]
                  = SubSeq(VariantNames, 1, Min(last.num_variants, 5))
           /\ last.num_variants <= 5
                  => Len(last.variants) = last.num_variants
           /\ last.variants # <<>>
                  => /\ last.variants[1].geometry # BaseAddr
                     /\ DeepValue(heap, last.variants[1].geometry)
                            = last.pre.geometry
           /\ \A i \in 1..Len(last.variants) :
                  last.variants[i].features
                      = AppliedFeatures(heap, last.variants[i].geometry)

\* five variants were asked for and the last one carries the three features
C22_Witness ==
    /\ AfterVariants
    /\ last.num_variants = 5
    /\ Len(last.variants) = 5
    /\ AppliedFeatures(heap, last.variants[5].geometry) = <<OWL, HUMP, DRAGON>>

\* ------------------------------------------------------------------- C23
\* how often the design at address a is in the list of addresses
TimesListed(designs, a) == Cardinality({i \in 1..Len(designs) : designs[i] = a})

\* how often an evaluation of the design at address a is in the results
TimesRanked(results, a) ==
    Cardinality({i \in 1..Len(results) :
                    results[i].evaluation.propeller_geometry = a})

\* C23: for every list of designs compare_designs returns all input designs
\* ranked by ascending NTR, a permutation of the input with non-decreasing
\* ntr, best_design an entry of minimum NTR and num_designs the length of
\* the input.
C23_RankedByNtr ==
    last.op = "compare_designs"
        => /\ last.comparison.err = "none"
           /\ \A a \in DesignAddrs :
                  TimesRanked(last.comparison.designs, a)
                      = TimesListed(last.designs, a)
           /\ \A i \in 1..(Len(last.comparison.designs) - 1) :
                  last.comparison.designs[i].ntr
                      <= last.comparison.designs[i + 1].ntr
           /\ \E i \in 1..Len(last.comparison.designs) :
                  last.comparison.best_design = last.comparison.designs[i]
           /\ \A i \in 1..Len(last.comparison.designs) :
                  last.comparison.best_design.ntr
                      <= last.comparison.designs[i].ntr
           /\ last.comparison.num_designs = Len(last.designs)

\* ------------------------------------------------------------------- C24
AfterMultiObjective ==
    last.op = "multi_objective_optimization" /\ last.err = "none"

\* equality of floats; false whenever an operand is nan
FloatEQ(a, b) == a # NaN /\ b # NaN /\ a = b

\* the weights of the call, 0.6 / 0.3 / 0.1 when none were given
WeightsUsed ==
    IF last.weights.given THEN last.weights.v
    ELSE [noise_reduction |-> 60, efficiency |-> 30, manufacturability |-> 10]

\* w_noise_reduction * reduction_pct + w_efficiency * efficiency * 100
\* + w_manufacturability * (100 - 15 * number of features), in hundredths
WeightedScore(w, entry) ==
    FloatAdd(
        FloatAdd(FloatScale(w.noise_reduction,
                            entry.evaluation.performance_metrics
                                .noise_reduction_percentage),
                 FloatScale(w.efficiency,
                            entry.evaluation.thrust_analysis.efficiency)),
        FloatScale(w.manufacturability,
                   (100 - 15 * Len(entry.features)) * 100))

\* C24: multi_objective_optimization returns exactly one result per input
\* feature combination, ordered by non-increasing total_score, where
\* total_score is the weighted sum of the reduction percentage, the
\* efficiency times 100 and 100 - 15 * the number of features of the
\* combination, under the weights 0.6 / 0.3 / 0.1 when none are given.
C24_RankedByTotalScore ==
    AfterMultiObjective
        => /\ Len(last.result) = Len(last.feature_combinations)
           /\ \A c \in {last.feature_combinations[i] :
                             i \in 1..Len(last.feature_combinations)} :
                  Cardinality({i \in 1..Len(last.result) :
                                  last.result[i].features = c})
                      = Cardinality({i \in 1..Len(last.feature_combinations) :
                                        last.feature_combinations[i] = c})
           /\ \A i \in 1..(Len(last.result) - 1) :
                  FloatGE(last.result[i].total_score,
                          last.result[i + 1].total_score)
           /\ \A i \in 1..Len(last.result) :
                  FloatEQ(last.result[i].total_score,
                          WeightedScore(WeightsUsed, last.result[i]))

\* ------------------------------------------------------------------- C25
\* the manufacturing complexity the call tolerates, medium when not given
Manufacturing ==
    Get(IF last.constraints.given THEN last.constraints.v ELSE EmptyDict,
        "manufacturing_complexity", "medium")

\* C25: recommend_features never returns a feature the manufacturing
\* constraint excludes: owl_serrations only when manufacturing_complexity is
\* medium or high and humpback_tubercles only when it is high, the features
\* added by the rule for a noise-reduction target of 15 or more included.
C25_ManufacturingRespected ==
    last.op = "recommend_features"
        => /\ InList(OWL, last.result)
                  => Manufacturing \in {"medium", "high"}
           /\ InList(HUMP, last.result) => Manufacturing = "high"

\* ------------------------------------------------------------------- C26
\* every trial of the running call has appended its entry
AllTrialsDone == opt.pc = "loop" /\ opt.iteration = opt.num_iterations

\* the running call as the sequential loop leaves it, from its first trial
SequentialOutcome ==
    SequentialLoop([opt EXCEPT !.iteration = 0,
                               !.best_design = NoDesign,
                               !.best_score = InitialBestScore(opt.objective)],
                   SubSeq(history, 1, opt.start_len), CallerHeap, conditions)

EntriesOfCall(h, start_len) == {h[k] : k \in (start_len + 1)..Len(h)}

\* a kept design without the parameters the sampler drew for it
WithoutConfigs(design) ==
    IF design.none THEN design
    ELSE [k \in (DOMAIN design) \ {"configs"} |-> design[k]]

TrialOutcome == TrialEvaluation(TrialCall(opt, CallerHeap, conditions))

FirstPass(g) == evaluate_design(heap, g, conditions, last.baseline_ntr)

\* the keys of the noise analysis the reduction step does not write
UntouchedNoiseKeys(noise_analysis) ==
    DOMAIN noise_analysis
        \ {"total_spl_db", "noise_reduction_db", "bio_inspired_reduction"}

\* the fields the feature mutations write
MutationKeys ==
    {"drag_coefficient", "cl_max", "stall_angle_deg",
     "trailing_edge_serrations", "leading_edge_tubercles",
     "surface_corrugations", "bio_inspired_feature",
     "structural_improvements", "bio_inspired_features"}

SameFirstPass(composed, base, evaluation, features) ==
    /\ composed.err = "none"
    /\ base.err = "none"
    /\ composed.noise_analysis = base.noise_analysis
    /\ composed.thrust_analysis = base.thrust_analysis
    /\ evaluation.thrust_analysis = base.thrust_analysis
    /\ \A k \in UntouchedNoiseKeys(evaluation.noise_analysis) :
           evaluation.noise_analysis[k] = base.noise_analysis[k]
    /\ IF features = <<>>
       THEN evaluation.noise_analysis = base.noise_analysis
       ELSE evaluation.noise_analysis["total_spl_db"]
                = estimate_combined_noise_reduction(
                      base.noise_analysis["total_spl_db"], features,
                      ExtractFeatureParams(
                          heap, evaluation.modified_geometry, features),
                      conditions).final_noise_db

\* C28: the first-pass noise and thrust results do not depend on any field
\* the feature mutations write: after evaluate_bio_inspired_design,
\* evaluate_design on the composed geometry gives the noise_analysis and the
\* thrust_analysis it gives on the base geometry, the returned thrust is the
\* thrust of the base geometry, and the returned noise total is what
\* estimate_combined_noise_reduction makes of the total of the base geometry.
C28_FirstPassIgnoresMutations ==
    AfterEvaluateBio
        => \E composed \in {FirstPass(last.evaluation.modified_geometry)},
              base \in {FirstPass(BaseAddr)} :
               SameFirstPass(composed, base, last.evaluation, last.features)

\* tubercles and corrugations applied: the composed geometry differs from
\* the base in fields the mutations wrote, and the returned total is lower
C28_Witness ==
    /\ AfterEvaluateBio
    /\ InList(HUMP, last.features)
    /\ InList(DRAGON, last.features)
    /\ \E k \in MutationKeys :
           /\ HasKey(heap[last.evaluation.modified_geometry], k)
           /\ HasKey(heap[BaseAddr], k)
           /\ heap[last.evaluation.modified_geometry][k] # heap[BaseAddr][k]
    /\ last.evaluation.thrust_analysis
           = FirstPass(BaseAddr).thrust_analysis
    /\ last.evaluation.noise_analysis["total_spl_db"]
           < FirstPass(BaseAddr).noise_analysis["total_spl_db"]

\* ------------------------------------------------------------------- C29
\* the synergy multiplier of n contributing features, in hundredths
FactorOf(n) == IF n <= 1 THEN 100 ELSE 100 + 18 * (n - 1)

\* C29: for every features list passed to estimate_combined_noise_reduction,
\* unrecognised and repeated names included, interaction_factor is
\* 1 + 0.18 (n - 1) for the number n of entries of individual_reductions
\* (1.0 when n <= 1), and total_reduction_db is interaction_factor times the
\* sum of the values of individual_reductions.
C29_FactorCountsContributors ==
    AfterEstimate /\ last.result.err = "none"
        => /\ last.result.interaction_factor
                  = FactorOf(Cardinality(
                                 DOMAIN last.result.individual_reductions))
           /\ last.result.total_reduction_db * 100
                  = last.result.interaction_factor
                        * SumOver(last.result.individual_reductions,
                                  DOMAIN last.result.individual_reductions)

\* ------------------------------------------------------------------- C30
\* the orders in which a list of distinct names can be passed
PermutationsOf(features) ==
    {p \in SeqsUpTo(NamedIn(features), Len(features)) :
         Len(p) = Len(features) /\ Distinct(p)}

\* the outcome of a call as far as a caller can compare two of them: the
\* exception, or the three results
CombinedOutcome(r) ==
    IF r.err # "none" THEN [err |-> r.err]
    ELSE [err |-> "none",
          individual_reductions |-> r.individual_reductions,
          total_reduction_db |-> r.total_reduction_db,
          final_noise_db |-> r.final_noise_db]

\* C30: no feature's noise_reduction_db depends on the baseline level it is
\* given, so for every list of distinct recognised features
\* estimate_combined_noise_reduction returns the same individual_reductions,
\* total_reduction_db and final_noise_db for every permutation of the list.
C30_PermutationInvariant ==
    (/\ AfterEstimate
     /\ Distinct(last.features)
     /\ \A i \in 1..Len(last.features) : last.features[i] \in FeatureNames)
    => \A p \in PermutationsOf(last.features) :
           CombinedOutcome(estimate_combined_noise_reduction(
                               last.baseline_noise_db, p,
                               last.feature_params, conditions))
               = CombinedOutcome(last.result)
====
